---- MODULE Spec2Model ----
(***************************************************************************)
(* A model of the tree-walking evaluator of crafting-rust-interpreters:    *)
(* values (value.rs), records (object.rs), the environment chain           *)
(* (environment.rs), execute_node / execute_expr / call / get (execute.rs) *)
(* and the host's entry (main.rs).                                         *)
(*                                                                         *)
(* Rc<RefCell<..>> storage is a heap: envs, arrays and objects are         *)
(* sequences and a reference is an index into them.  The evaluator is      *)
(* recursive in the source and recursive here: every operator takes the    *)
(* store st = [envs, arrays, objects, out] and yields [res, st].           *)
(*                                                                         *)
(* The parser (parser.rs) is a second machine over the tokens the scanner  *)
(* hands it: ParserSpec parses a source statement by statement as the loop *)
(* of Parser::statements does, Spec executes a program given as a tree.    *)
(* execute.rs matches on Node::Block, Node::Var, Expr::MethodCall and       *)
(* Expr::Object, which the parser of this tree does not construct: Spec    *)
(* runs execute_node on trees of every kind it matches, among them the     *)
(* tree Parser::parse gives for a source.                                  *)
(***************************************************************************)
EXTENDS Integers, Sequences, FiniteSets

VARIABLES envs, arrays, objects, out, last, result, pc, nsteps, build,
          tokens, index, parsed, parse_node

vars == <<envs, arrays, objects, out, last, result, pc, nsteps, build,
          tokens, index, parsed, parse_node>>
\* The parser: its tokens and index, the statements pushed so far by
\* Parser::statements, and the Result main gets from parse.
pvars == <<tokens, index, parsed, parse_node>>

(* ------------------------------ bounds --------------------------------- *)

\* Top-level statements one run of the host executes.
MaxStmts == 3
\* Frames of execute_node / execute_expr / call the model follows a run
\* down to.
MaxDepth == 22
\* Iterations of one while loop the model follows.
MaxIter == 3
\* Statements of one source handed to the parser.
MaxSource == 2

(* ------------------------------ values --------------------------------- *)

I32Min == -2147483647 - 1
I32Max == 2147483647

Nothing == [t |-> "Nothing"]
Number(n) == [t |-> "Number", n |-> n]
String(s) == [t |-> "String", s |-> s]
Boolean(b) == [t |-> "Boolean", b |-> b]
NativeFunction(f) == [t |-> "NativeFunction", f |-> f]
Function(parameters, body, scope) ==
    [t |-> "Function", parameters |-> parameters, body |-> body, scope |-> scope]
ArrayRef(r) == [t |-> "Array", ref |-> r]
ObjectRef(r) == [t |-> "Object", ref |-> r]

\* Option<Value>::None, the receiver of a plain call.
None == [t |-> "None"]

(* ------------------------------ results -------------------------------- *)

Ok(v) == [tag |-> "Ok", value |-> v]
Message(m) == [tag |-> "Message", msg |-> m]
Return(v) == [tag |-> "Return", value |-> v]
\* The process dies (stack overflow, arithmetic panic): no VMResult at all.
Abort(why) == [tag |-> "Abort", msg |-> why]
\* A loop the model stopped following: the program has not finished.
Running == [tag |-> "Running"]

err(msg) == Message(<<msg>>)

With(res, st) == [res |-> res, st |-> st]

(* --------------------------------- AST --------------------------------- *)

Statements(statements) == [k |-> "Statements", statements |-> statements]
ExpressionStatement(expr) == [k |-> "ExpressionStatement", expr |-> expr]
Block(statements) == [k |-> "Block", statements |-> statements]
Var(name, init) == [k |-> "Var", name |-> name, init |-> init]
Fun(name, parameters, body) ==
    [k |-> "Fun", name |-> name, parameters |-> parameters, body |-> body]
ReturnStmt(expr) == [k |-> "Return", expr |-> expr]
PrintStmt(expr) == [k |-> "Print", expr |-> expr]
While(condition, block) == [k |-> "While", condition |-> condition, block |-> block]
If(condition, then, other) ==
    [k |-> "If", condition |-> condition, then |-> then, other |-> other]

Binary(op, l, r) == [e |-> op, l |-> l, r |-> r]
ENumber(n) == [e |-> "Number", n |-> n]
EString(s) == [e |-> "String", s |-> s]
EBoolean(b) == [e |-> "Boolean", b |-> b]
Call(c, arguments) == [e |-> "Call", c |-> c, arguments |-> arguments]
MethodCall(b, key, arguments) ==
    [e |-> "MethodCall", b |-> b, key |-> key, arguments |-> arguments]
EArray(values) == [e |-> "Array", values |-> values]
EObject(fields) == [e |-> "Object", fields |-> fields]
Assign(name, expr) == [e |-> "Assign", name |-> name, expr |-> expr]
Identifier(name) == [e |-> "Identifier", name |-> name]
Get(b, key) == [e |-> "Get", b |-> b, key |-> key]
Set(b, key, v) == [e |-> "Set", b |-> b, key |-> key, v |-> v]

\* Option<Box<Expr>>::None, a declaration without initializer.
NoInit == [e |-> "None"]

BinaryOps == {"Eq", "Ne", "Greater", "GreaterEqual", "Less", "LessEqual",
              "Plus", "Minus", "Multiply"}

(* ----------------------------- HashMap --------------------------------- *)

EmptyMap == [n \in {} |-> Nothing]
insert(m, name, value) ==
    [n \in DOMAIN m \cup {name} |-> IF n = name THEN value ELSE m[n]]

(* --------------------------- environment.rs ---------------------------- *)

\* enclosing = 0 is Option::None.
Environment_new == [enclosing |-> 0, bindings |-> EmptyMap]
Environment_new_enclosing(env) == [enclosing |-> env, bindings |-> EmptyMap]

\* Rc::new(RefCell::new(node)): the node gets the next index of the heap.
Rc_new(heap, node) == Append(heap, node)

Environment_define(es, self, name, value) ==
    [es EXCEPT ![self].bindings = insert(@, name, value)]

RECURSIVE Environment_set_declaring(_, _, _, _)
\* Environment_set declaring the name in the outermost node when no node
\* of the chain holds it (an implicit global).
Environment_set_declaring(es, self, name, value) ==
    IF name \in DOMAIN es[self].bindings \/ es[self].enclosing = 0
    THEN [res |-> Ok(value), envs |-> [es EXCEPT ![self].bindings = insert(@, name, value)]]
    ELSE Environment_set_declaring(es, es[self].enclosing, name, value)
RECURSIVE Environment_set(_, _, _, _)
Environment_set(es, self, name, value) ==
    IF name \in DOMAIN es[self].bindings
    THEN [res |-> Ok(value), envs |-> [es EXCEPT ![self].bindings = insert(@, name, value)]]
    ELSE IF es[self].enclosing # 0
         THEN Environment_set(es, es[self].enclosing, name, value)
         ELSE [res |-> Message(<<"no such variable '", name, "'">>), envs |-> es]

RECURSIVE Environment_get(_, _, _)
Environment_get(es, self, name) ==
    IF name \in DOMAIN es[self].bindings
    THEN Ok(es[self].bindings[name])
    ELSE IF es[self].enclosing # 0
         THEN Environment_get(es, es[self].enclosing, name)
         ELSE Message(<<"no such variable '", name, "'">>)

(* ------------------------------ object.rs ------------------------------ *)

Object_new == EmptyMap
Object_set(fields, name, value) == insert(fields, name, value)
Object_get(fields, name) ==
    IF name \in DOMAIN fields
    THEN Ok(fields[name])
    ELSE Message(<<"no property named '", name, "'">>)

(* ------------------------- i32 arithmetic ------------------------------ *)

\* Rust's i32 + - * : a debug build panics on overflow, a release build
\* wraps.  Sums are formed so that no intermediate leaves the 32-bit range.
add_overflows(a, b) ==
    (b > 0 /\ a > I32Max - b) \/ (b < 0 /\ a < I32Min - b)
wrapping_add(a, b) ==
    IF ~add_overflows(a, b) THEN a + b
    ELSE IF b > 0 THEN (a + I32Min) + (b + I32Min)
    ELSE (a - I32Min) + (b - I32Min)

sub_overflows(a, b) ==
    (b < 0 /\ a > I32Max + b) \/ (b > 0 /\ a < I32Min + b)
wrapping_sub(a, b) ==
    IF b = I32Min THEN (IF a >= 0 THEN a + I32Min ELSE a - I32Min)
    ELSE wrapping_add(a, 0 - b)

\* a * b of i32 without overflow checks: the low 32 bits of the product,
\* computed on 16-bit halves so that no intermediate leaves 32 bits.
lo16(x) == x % 65536
hi16(x) == (x \div 65536) % 65536
\* v * 2^8 for v in 0..2^24-1 and v * 2^16 for v in 0..2^16-1, wrapped.
shl8(v) == IF v < 8388608 THEN v * 256 ELSE (v - 16777216) * 256
shl16(v) == IF v < 32768 THEN v * 65536 ELSE (v - 65536) * 65536
\* x * y for 16-bit x and y: its low 16 bits, and all of it wrapped.
mul16_lo(x, y) == (x * (y % 256) + ((x * (y \div 256)) % 256) * 256) % 65536
mul16(x, y) == wrapping_add(shl8(x * (y \div 256)), x * (y % 256))
wrapping_mul(a, b) ==
    wrapping_add(mul16(lo16(a), lo16(b)),
                 shl16((mul16_lo(hi16(a), lo16(b)) + mul16_lo(lo16(a), hi16(b))) % 65536))
mul_overflows(a, b) ==
    IF a = 0 \/ b = 0 THEN FALSE
    ELSE IF a = -1 THEN b = I32Min
    ELSE IF b = -1 THEN a = I32Min
    ELSE wrapping_mul(a, b) \div b # a

\* The outcome of an arithmetic operator of execute_expr on two Numbers.
arith(op, a, b) ==
    LET over == CASE op = "Plus" -> add_overflows(a, b)
                  [] op = "Minus" -> sub_overflows(a, b)
                  [] op = "Multiply" -> mul_overflows(a, b)
        r == CASE op = "Plus" -> wrapping_add(a, b)
               [] op = "Minus" -> wrapping_sub(a, b)
               [] op = "Multiply" -> wrapping_mul(a, b)
    IN  IF over /\ build = "debug"
        THEN Abort(<<"attempt to ", op, " with overflow">>)
        ELSE Ok(Number(r))

compare(op, a, b) ==
    CASE op = "Eq" -> a = b
      [] op = "Ne" -> a # b
      [] op = "Greater" -> a > b
      [] op = "GreaterEqual" -> a >= b
      [] op = "Less" -> a < b
      [] op = "LessEqual" -> a <= b

\* binary_result with a coercion: a Boolean operand counts as the Number
\* 1 or 0.
binary_result_coercing(op, left, right) ==
    LET n(v) == IF v.t = "Number" THEN v.n ELSE IF v.b THEN 1 ELSE 0
    IN  IF left.t \in {"Number", "Boolean"} /\ right.t \in {"Number", "Boolean"}
        THEN IF op \in {"Plus", "Minus", "Multiply"}
             THEN arith(op, n(left), n(right))
             ELSE Ok(Boolean(compare(op, n(left), n(right))))
        ELSE CASE op \in {"Eq", "Ne", "Plus", "Minus", "Multiply"} ->
                    Message(<<"Unexpected ", op, " operands">>)
               [] op = "Greater" -> err("Unexpected > operands")
               [] op = "GreaterEqual" -> err("Unexpected >= operands")
               [] op = "Less" -> err("Unexpected < operands")
               [] op = "LessEqual" -> err("Unexpected <= operands")

\* The match on (left, right) of the nine binary arms.
binary_result(op, left, right) ==
    IF left.t = "Number" /\ right.t = "Number"
    THEN IF op \in {"Plus", "Minus", "Multiply"}
         THEN arith(op, left.n, right.n)
         ELSE Ok(Boolean(compare(op, left.n, right.n)))
    ELSE CASE op \in {"Eq", "Ne", "Plus", "Minus", "Multiply"} ->
                Message(<<"Unexpected ", op, " operands">>)
           [] op = "Greater" -> err("Unexpected > operands")
           [] op = "GreaterEqual" -> err("Unexpected >= operands")
           [] op = "Less" -> err("Unexpected < operands")
           [] op = "LessEqual" -> err("Unexpected <= operands")

(* ------------------------- {:?} of a value ------------------------------ *)

\* The derived Debug of Value follows every Rc it meets, so it ends only
\* on a finite (acyclic) structure; on a cycle it recurses until the stack
\* overflows.  path holds the cells (environment nodes, arrays, records)
\* the formatter is inside of: meeting one of them again is a cycle.
EnvCell(e) == <<"Environment", e>>
ArrayCell(ref) == <<"Array", ref>>
ObjectCell(ref) == <<"Object", ref>>

RECURSIVE debug_ends(_, _, _), debug_env_ends(_, _, _)
debug_ends(v, st, path) ==
    CASE v.t = "Function" -> debug_env_ends(v.scope, st, path)
      [] v.t = "Array" ->
            /\ ArrayCell(v.ref) \notin path
            /\ \A i \in 1..Len(st.arrays[v.ref]) :
                  debug_ends(st.arrays[v.ref][i], st, path \cup {ArrayCell(v.ref)})
      [] v.t = "Object" ->
            /\ ObjectCell(v.ref) \notin path
            /\ \A n \in DOMAIN st.objects[v.ref] :
                  debug_ends(st.objects[v.ref][n], st, path \cup {ObjectCell(v.ref)})
      [] OTHER -> TRUE
debug_env_ends(e, st, path) ==
    IF e = 0 THEN TRUE
    ELSE /\ EnvCell(e) \notin path
         /\ debug_env_ends(st.envs[e].enclosing, st, path \cup {EnvCell(e)})
         /\ \A n \in DOMAIN st.envs[e].bindings :
                debug_ends(st.envs[e].bindings[n], st, path \cup {EnvCell(e)})

\* What {:?} writes for a finite value: the value with every reference
\* replaced by what it refers to (a fn pointer prints as an address).
RECURSIVE debug(_, _), debug_env(_, _)
debug(v, st) ==
    CASE v.t = "NativeFunction" -> [t |-> "NativeFunction"]
      [] v.t = "Function" ->
            [t |-> "Function", parameters |-> v.parameters, body |-> v.body,
             scope |-> debug_env(v.scope, st)]
      [] v.t = "Array" ->
            [t |-> "Array",
             elems |-> [i \in 1..Len(st.arrays[v.ref]) |-> debug(st.arrays[v.ref][i], st)]]
      [] v.t = "Object" ->
            [t |-> "Object",
             fields |-> [n \in DOMAIN st.objects[v.ref] |-> debug(st.objects[v.ref][n], st)]]
      [] OTHER -> v
debug_env(e, st) ==
    IF e = 0 THEN [t |-> "None"]
    ELSE [t |-> "Environment",
          enclosing |-> debug_env(st.envs[e].enclosing, st),
          bindings |-> [n \in DOMAIN st.envs[e].bindings |->
                            debug(st.envs[e].bindings[n], st)]]

\* What {:?} writes for a value that holds a cycle before the stack
\* overflows.  The text is written as it is produced, depth first and in
\* the order of the fields, so the output gets what comes before the cycle
\* and, of the cycle, the way into it; nothing that comes after is
\* written.  Cut stands where the formatter meets a cell it is inside of
\* (from there the text repeats until the process dies).  The order in
\* which a HashMap gives its entries is not fixed by the program and
\* differs from run to run: of the bindings of a node and the fields of a
\* record the formatter dies in any one of the entries that do not end,
\* with any of the entries that end written before it.  debug_cut and
\* debug_env_cut are the texts a run can leave.
Cut == [t |-> "..."]
RECURSIVE debug_cut(_, _, _), debug_env_cut(_, _, _)
\* The first element of a Vec whose {:?} does not end.
FirstEndlessElem(elems, st, path) ==
    CHOOSE i \in 1..Len(elems) :
        /\ ~debug_ends(elems[i], st, path)
        /\ \A j \in 1..(i - 1) : debug_ends(elems[j], st, path)
\* The elements of a Vec up to the first that does not end, cut there.
debug_cut_elems(elems, st, path) ==
    {[i \in 1..FirstEndlessElem(elems, st, path) |->
         IF i < FirstEndlessElem(elems, st, path) THEN debug(elems[i], st) ELSE c] :
       c \in debug_cut(elems[FirstEndlessElem(elems, st, path)], st, path)}
\* The entries of a HashMap: some of those that end, and one that does not.
debug_cut_entries(map, st, path) ==
    UNION {{[m \in W \cup {n} |-> IF m = n THEN c ELSE debug(map[m], st)] :
              W \in SUBSET {m \in DOMAIN map : debug_ends(map[m], st, path)},
              c \in debug_cut(map[n], st, path)} :
           n \in {m \in DOMAIN map : ~debug_ends(map[m], st, path)}}
debug_cut(v, st, path) ==
    CASE v.t = "Function" ->
            {[t |-> "Function", parameters |-> v.parameters, body |-> v.body,
              scope |-> c] : c \in debug_env_cut(v.scope, st, path)}
      [] v.t = "Array" ->
            IF ArrayCell(v.ref) \in path THEN {Cut}
            ELSE {[t |-> "Array", elems |-> c] :
                    c \in debug_cut_elems(st.arrays[v.ref], st,
                                          path \cup {ArrayCell(v.ref)})}
      [] v.t = "Object" ->
            IF ObjectCell(v.ref) \in path THEN {Cut}
            ELSE {[t |-> "Object", fields |-> c] :
                    c \in debug_cut_entries(st.objects[v.ref], st,
                                            path \cup {ObjectCell(v.ref)})}
      [] OTHER -> {v}
debug_env_cut(e, st, path) ==
    IF e = 0 THEN {[t |-> "None"]}
    ELSE IF EnvCell(e) \in path THEN {Cut}
    ELSE IF ~debug_env_ends(st.envs[e].enclosing, st, path \cup {EnvCell(e)})
    THEN {[t |-> "Environment", enclosing |-> c] :
            c \in debug_env_cut(st.envs[e].enclosing, st, path \cup {EnvCell(e)})}
    ELSE {[t |-> "Environment",
           enclosing |-> debug_env(st.envs[e].enclosing, st),
           bindings |-> c] :
            c \in debug_cut_entries(st.envs[e].bindings, st, path \cup {EnvCell(e)})}

\* The line println! leaves on the output when the formatter dies in it:
\* the text written so far, one of texts, and no end of line.
Unterminated(chan, texts) == [chan |-> chan, texts |-> texts, unterminated |-> TRUE]
\* The outputs of a run whose store holds o: the line the process died in
\* has one of its texts.
Written(o) ==
    IF o # <<>> /\ "unterminated" \in DOMAIN o[Len(o)]
    THEN {[o EXCEPT ![Len(o)] = [chan |-> @.chan, text |-> c, unterminated |-> TRUE]] :
            c \in o[Len(o)].texts}
    ELSE {o}

\* println!(prefix, {:?} of v): a line on the host's output, or the
\* process dying in the formatter with the line begun.
println_debug(chan, v, value, st) ==
    IF debug_ends(v, st, {})
    THEN With(Ok(value), [st EXCEPT !.out = Append(@, [chan |-> chan, text |-> debug(v, st)])])
    ELSE With(Abort(<<"stack overflow in fmt::Debug">>),
              [st EXCEPT !.out = Append(@, Unterminated(chan, debug_cut(v, st, {})))])

(* ---------------------- execute.rs: natives, get ----------------------- *)

array_push(base, args, st) ==
    IF base.t = "Array"
    THEN With(Ok(Nothing), [st EXCEPT !.arrays[base.ref] = @ \o args])
    ELSE With(Ok(Nothing), st)

\* main.rs println: prints its arguments, yields Nothing; the formatter
\* dies in the first argument that holds a cycle, the arguments before it
\* written.
println(base, args, st) ==
    IF \A i \in 1..Len(args) : debug_ends(args[i], st, {})
    THEN With(Ok(Nothing),
              [st EXCEPT !.out = Append(@, [chan |-> "println",
                    text |-> [i \in 1..Len(args) |-> debug(args[i], st)]])])
    ELSE With(Abort(<<"stack overflow in fmt::Debug">>),
              [st EXCEPT !.out = Append(@, Unterminated("println",
                                               debug_cut_elems(args, st, {})))])

\* fun(base, args) through the fn pointer a NativeFunction holds.
native(f, base, args, st) ==
    CASE f = "array_push" -> array_push(base, args, st)
      [] f = "println" -> println(base, args, st)

\* get that indexes with the key cast to unsigned: a negative index is
\* past the end like any other.
get_unsigned(base, key, st) ==
    IF base.t = "Array"
    THEN CASE key.t = "Number" ->
                IF key.n >= 0 /\ key.n < Len(st.arrays[base.ref])
                THEN Ok(st.arrays[base.ref][key.n + 1])
                ELSE err("array index of range")
           [] key.t = "String" /\ key.s = "length" ->
                Ok(Number(Len(st.arrays[base.ref])))
           [] key.t = "String" /\ key.s = "push" -> Ok(NativeFunction("array_push"))
           [] OTHER -> err("invalid key")
    ELSE IF base.t = "Object"
    THEN IF key.t = "String"
         THEN Object_get(st.objects[base.ref], key.s)
         ELSE err("value lookup only with string key")
    ELSE err("invalid base")

get(base, key, st) ==
    IF base.t = "Array"
    THEN CASE key.t = "Number" ->
                IF key.n < 0 THEN err("negative array index")
                ELSE IF key.n < Len(st.arrays[base.ref])
                     THEN Ok(st.arrays[base.ref][key.n + 1])
                     ELSE err("array index of range")
           [] key.t = "String" /\ key.s = "length" ->
                Ok(Number(Len(st.arrays[base.ref])))
           [] key.t = "String" /\ key.s = "push" -> Ok(NativeFunction("array_push"))
           [] OTHER -> err("invalid key")
    ELSE IF base.t = "Object"
    THEN IF key.t = "String"
         THEN Object_get(st.objects[base.ref], key.s)
         ELSE err("value lookup only with string key")
    ELSE err("invalid base")

(* ------------------- execute.rs: the evaluator -------------------------- *)

\* d counts the frames of execute_node / execute_expr / call on the host
\* stack.  The host's stack holds thousands of them; the model follows a
\* run down to MaxDepth frames and past that says no more of it than that
\* it is still running (Running).  The stack overflows, and the process
\* dies, on a recursion that never ends: st.calls holds the calls of
\* Functions in progress, and a call that finds itself in progress with
\* the same arguments, heap and output as then repeats what led to it
\* for ever.
\* Rust's `let r = e?; rest` is written rest_k(.., e): the operator named
\* .._k is the rest of the arm, given what e came to.
RECURSIVE execute_node(_, _, _, _), execute_expr(_, _, _, _)
RECURSIVE call(_, _, _, _, _, _)
RECURSIVE collect(_, _, _, _, _, _)
RECURSIVE statements_loop(_, _, _, _, _, _)
RECURSIVE while_loop(_, _, _, _, _, _)
RECURSIVE fields_loop(_, _, _, _, _, _)

\* arguments.iter().map(|arg| execute_expr(&arg, env)).collect(): the
\* values left to right, or the first Err (nothing after it is evaluated).
collect_k(exprs, i, acc, env, d, r) ==
    IF r.res.tag # "Ok" THEN r
    ELSE collect(exprs, i + 1, Append(acc, r.res.value), env, r.st, d)
collect(exprs, i, acc, env, st, d) ==
    IF i > Len(exprs) THEN With(Ok(acc), st)
    ELSE collect_k(exprs, i, acc, env, d, execute_expr(exprs[i], env, st, d + 1))

\* for (name, arg) in parameters.iter().zip(args) { local.define(name, arg) }
RECURSIVE define_zip(_, _, _, _, _)
define_zip(es, local, parameters, args, i) ==
    IF i > Len(parameters) \/ i > Len(args) THEN es
    ELSE define_zip(Environment_define(es, local, parameters[i], args[i]),
                    local, parameters, args, i + 1)

\* call_result with an implicit return: a body that completes yields the
\* value of its last statement.
call_result_implicit(r) ==
    CASE r.res.tag = "Return" -> With(Ok(r.res.value), r.st)
      [] OTHER -> r

\* call_result that recovers from a failure of the body: the call yields
\* Nothing and the caller runs on.
call_result_recovering(r) ==
    CASE r.res.tag = "Return" -> With(Ok(r.res.value), r.st)
      [] r.res.tag \in {"Ok", "Message"} -> With(Ok(Nothing), r.st)
      [] OTHER -> r

\* The match on what the body of a called Function came to.
call_result(r) ==
    CASE r.res.tag = "Return" -> With(Ok(r.res.value), r.st)
      [] r.res.tag = "Ok" -> With(Ok(Nothing), r.st)
      [] OTHER -> r

\* call_local that defines the parameters in the captured node itself, so
\* that all calls of a function share them.
call_local_shared(callee, args, es) ==
    define_zip(Rc_new(es, Environment_new_enclosing(callee.scope)),
               callee.scope, callee.parameters, args, 1)

\* The local node of a call: a new node enclosing the captured scope, with
\* the parameters defined in it.
call_local(callee, args, es) ==
    define_zip(Rc_new(es, Environment_new_enclosing(callee.scope)),
               Len(es) + 1, callee.parameters, args, 1)

\* The call of callee with args as it is entered in the store st.
Frame(callee, args, st) ==
    [callee |-> callee, args |-> args, envs |-> st.envs, arrays |-> st.arrays,
     objects |-> st.objects, out |-> st.out]
\* The call in progress fr is the same call made again: since it was
\* entered nothing was written, and the heap only gained the nodes of the
\* calls made since.
Recurs(fr, callee, args, st) ==
    /\ fr.callee = callee
    /\ fr.args = args
    /\ fr.arrays = st.arrays
    /\ fr.objects = st.objects
    /\ fr.out = st.out
    /\ Len(fr.envs) <= Len(st.envs)
    /\ SubSeq(st.envs, 1, Len(fr.envs)) = fr.envs
EndlessRecursion(callee, args, st) ==
    \E k \in 1..Len(st.calls) : Recurs(st.calls[k], callee, args, st)
\* The call is over, whatever it came to: its frame is gone.
call_leave(calls, r) == [r EXCEPT !.st.calls = calls]

call_Function_k(callee, d, a) ==
    IF a.res.tag # "Ok" THEN a
    ELSE IF EndlessRecursion(callee, a.res.value, a.st)
    THEN With(Abort(<<"stack overflow">>), a.st)
    ELSE call_leave(a.st.calls,
            call_result(execute_node(callee.body, Len(a.st.envs) + 1,
                        [a.st EXCEPT !.envs = call_local(callee, a.res.value, @),
                                     !.calls = Append(@, Frame(callee, a.res.value, a.st))],
                        d + 1)))
\* call_Function whose local node encloses the caller's node (dynamic scope).
call_Function_dynamic(callee, base, arguments, env, st, d) ==
    call_Function_k([callee EXCEPT !.scope = env], d,
                    collect(arguments, 1, <<>>, env, st, d))
call_Function(callee, base, arguments, env, st, d) ==
    call_Function_k(callee, d, collect(arguments, 1, <<>>, env, st, d))

call_Native_k(callee, base, a) ==
    IF a.res.tag # "Ok" THEN a
    ELSE native(callee.f, base, a.res.value, a.st)
call_Native(callee, base, arguments, env, st, d) ==
    call_Native_k(callee, base, collect(arguments, 1, <<>>, env, st, d))

call(callee, base, arguments, env, st, d) ==
    IF d > MaxDepth THEN With(Running, st)
    ELSE CASE callee.t = "NativeFunction" -> call_Native(callee, base, arguments, env, st, d)
           [] callee.t = "Function" -> call_Function(callee, base, arguments, env, st, d)
           [] OTHER -> With(err("expected function callee"), st)

\* for node in statements { last = execute_node(&node, env)?; } Ok(last)
\* statements_k that lets a sequence run on past a return.
statements_k_past_return(statements, i, env, d, r) ==
    IF r.res.tag \notin {"Ok", "Return"} THEN r
    ELSE statements_loop(statements, i + 1, r.res.value, env, r.st, d)
statements_k(statements, i, env, d, r) ==
    IF r.res.tag # "Ok" THEN r
    ELSE statements_loop(statements, i + 1, r.res.value, env, r.st, d)
statements_loop(statements, i, lastv, env, st, d) ==
    IF i > Len(statements) THEN With(Ok(lastv), st)
    ELSE statements_k(statements, i, env, d, execute_node(statements[i], env, st, d + 1))

node_Statements(node, env, st, d) ==
    statements_loop(node.statements, 1, Nothing, env, st, d)

\* node_Block running its statements in the enclosing node (no new scope).
node_Block_unscoped(node, env, st, d) ==
    statements_loop(node.statements, 1, Nothing, env, st, d)
node_Block(node, env, st, d) ==
    statements_loop(node.statements, 1, Nothing, Len(st.envs) + 1,
                    [st EXCEPT !.envs = Rc_new(@, Environment_new_enclosing(env))], d)

\* node_Var_k declaring a copy of an array instead of the array.
node_Var_k_copying(node, env, r) ==
    IF r.res.tag # "Ok" THEN r
    ELSE IF r.res.value.t = "Array"
    THEN With(Ok(r.res.value),
              [r.st EXCEPT
                 !.arrays = Append(@, @[r.res.value.ref]),
                 !.envs = Environment_define(@, env, node.name,
                                             ArrayRef(Len(r.st.arrays) + 1))])
    ELSE With(Ok(r.res.value),
              [r.st EXCEPT !.envs = Environment_define(@, env, node.name, r.res.value)])
node_Var_k(node, env, r) ==
    IF r.res.tag # "Ok" THEN r
    ELSE With(Ok(r.res.value),
              [r.st EXCEPT !.envs = Environment_define(@, env, node.name, r.res.value)])
node_Var(node, env, st, d) ==
    node_Var_k(node, env, IF node.init.e = "None" THEN With(Ok(Nothing), st)
                          ELSE execute_expr(node.init, env, st, d + 1))

\* node_Fun capturing a copy of the node (the bindings at definition time).
node_Fun_snapshot(node, env, st, d) ==
    With(Ok(Nothing),
         [st EXCEPT !.envs = Environment_define(Append(@, @[env]), env, node.name,
                                Function(node.parameters, node.body, Len(st.envs) + 1))])
node_Fun(node, env, st, d) ==
    With(Ok(Nothing),
         [st EXCEPT !.envs = Environment_define(@, env, node.name,
                                Function(node.parameters, node.body, env))])

node_Return_k(r) ==
    IF r.res.tag # "Ok" THEN r ELSE With(Return(r.res.value), r.st)
node_Return(node, env, st, d) ==
    node_Return_k(execute_expr(node.expr, env, st, d + 1))

node_Print_k(r) ==
    IF r.res.tag # "Ok" THEN r
    ELSE println_debug("print", r.res.value, r.res.value, r.st)
node_Print(node, env, st, d) ==
    node_Print_k(execute_expr(node.expr, env, st, d + 1))

\* loop { match execute_expr(&condition, env)? { .. } } Ok(Value::Nothing)
while_body_k(condition, block, n, env, d, b) ==
    IF b.res.tag # "Ok" THEN b
    ELSE while_loop(condition, block, n + 1, env, b.st, d)
while_cond_k(condition, block, n, env, d, c) ==
    IF c.res.tag # "Ok" THEN c
    ELSE IF c.res.value.t = "Boolean" /\ c.res.value.b
    THEN while_body_k(condition, block, n, env, d, execute_node(block, env, c.st, d + 1))
    ELSE IF c.res.value.t = "Boolean"
    THEN With(Ok(Nothing), c.st)
    ELSE With(err("while expects boolean operand"), c.st)
while_loop(condition, block, n, env, st, d) ==
    IF n >= MaxIter THEN With(Running, st)
    ELSE while_cond_k(condition, block, n, env, d, execute_expr(condition, env, st, d + 1))

node_While(node, env, st, d) ==
    while_loop(node.condition, node.block, 0, env, st, d)

node_If_k(node, env, d, c) ==
    IF c.res.tag # "Ok" THEN c
    ELSE IF c.res.value.t = "Boolean" /\ c.res.value.b
    THEN execute_node(node.then, env, c.st, d + 1)
    ELSE IF c.res.value.t = "Boolean"
    THEN execute_node(node.other, env, c.st, d + 1)
    ELSE With(err("if expects boolean operand"), c.st)
node_If(node, env, st, d) ==
    node_If_k(node, env, d, execute_expr(node.condition, env, st, d + 1))

execute_node(node, env, st, d) ==
    IF d > MaxDepth THEN With(Running, st)
    ELSE CASE node.k = "Statements" -> node_Statements(node, env, st, d)
           [] node.k = "ExpressionStatement" -> execute_expr(node.expr, env, st, d + 1)
           [] node.k = "Block" -> node_Block(node, env, st, d)
           [] node.k = "Var" -> node_Var(node, env, st, d)
           [] node.k = "Fun" -> node_Fun(node, env, st, d)
           [] node.k = "Return" -> node_Return(node, env, st, d)
           [] node.k = "Print" -> node_Print(node, env, st, d)
           [] node.k = "While" -> node_While(node, env, st, d)
           [] node.k = "If" -> node_If(node, env, st, d)

\* let left = execute_expr(&l, env)?; let right = execute_expr(&r, env)?;
expr_Binary_k2(expr, left, right) ==
    IF right.res.tag # "Ok" THEN right
    ELSE With(binary_result(expr.e, left.res.value, right.res.value), right.st)
expr_Binary_k1(expr, env, d, left) ==
    IF left.res.tag # "Ok" THEN left
    ELSE expr_Binary_k2(expr, left, execute_expr(expr.r, env, left.st, d + 1))
expr_Binary(expr, env, st, d) ==
    expr_Binary_k1(expr, env, d, execute_expr(expr.l, env, st, d + 1))

expr_Call_k(expr, env, d, callee) ==
    IF callee.res.tag # "Ok" THEN callee
    ELSE call(callee.res.value, None, expr.arguments, env, callee.st, d + 1)
expr_Call(expr, env, st, d) ==
    expr_Call_k(expr, env, d, execute_expr(expr.c, env, st, d + 1))

\* let base = ..?; let key = ..?; (the operands of MethodCall, Get and Set)
operands_k2(base, key) ==
    IF key.res.tag # "Ok" THEN key
    ELSE With(Ok(<<base.res.value, key.res.value>>), key.st)
operands_k1(expr, env, d, base) ==
    IF base.res.tag # "Ok" THEN base
    ELSE operands_k2(base, execute_expr(expr.key, env, base.st, d + 1))
operands(expr, env, st, d) ==
    operands_k1(expr, env, d, execute_expr(expr.b, env, st, d + 1))

expr_MethodCall_k2(expr, env, d, base, st, callee) ==
    IF callee.tag # "Ok" THEN With(callee, st)
    ELSE call(callee.value, base, expr.arguments, env, st, d + 1)
expr_MethodCall_k1(expr, env, d, bk) ==
    IF bk.res.tag # "Ok" THEN bk
    ELSE expr_MethodCall_k2(expr, env, d, bk.res.value[1], bk.st,
                            get(bk.res.value[1], bk.res.value[2], bk.st))
expr_MethodCall(expr, env, st, d) ==
    expr_MethodCall_k1(expr, env, d, operands(expr, env, st, d))

expr_Array_k(vals) ==
    IF vals.res.tag # "Ok" THEN vals
    ELSE With(Ok(ArrayRef(Len(vals.st.arrays) + 1)),
              [vals.st EXCEPT !.arrays = Rc_new(@, vals.res.value)])
expr_Array(expr, env, st, d) ==
    expr_Array_k(collect(expr.values, 1, <<>>, env, st, d))

\* for (name, expr) in fields { object.set(name, execute_expr(expr, env)?) }
fields_k(fields, i, object, env, d, r) ==
    IF r.res.tag # "Ok" THEN r
    ELSE fields_loop(fields, i + 1, Object_set(object, fields[i][1], r.res.value),
                     env, r.st, d)
fields_loop(fields, i, object, env, st, d) ==
    IF i > Len(fields) THEN With(Ok(object), st)
    ELSE fields_k(fields, i, object, env, d, execute_expr(fields[i][2], env, st, d + 1))

expr_Object_k(object) ==
    IF object.res.tag # "Ok" THEN object
    ELSE With(Ok(ObjectRef(Len(object.st.objects) + 1)),
              [object.st EXCEPT !.objects = Rc_new(@, object.res.value)])
expr_Object(expr, env, st, d) ==
    expr_Object_k(fields_loop(expr.fields, 1, Object_new, env, st, d))

expr_Assign_k2(st, s) == With(s.res, [st EXCEPT !.envs = s.envs])
expr_Assign_k1(expr, env, right) ==
    IF right.res.tag # "Ok" THEN right
    ELSE expr_Assign_k2(right.st,
            Environment_set(right.st.envs, env, expr.name, right.res.value))
expr_Assign(expr, env, st, d) ==
    expr_Assign_k1(expr, env, execute_expr(expr.expr, env, st, d + 1))

expr_Identifier(expr, env, st, d) ==
    With(Environment_get(st.envs, env, expr.name), st)

expr_Get_k(bk) ==
    IF bk.res.tag # "Ok" THEN bk
    ELSE With(get(bk.res.value[1], bk.res.value[2], bk.st), bk.st)
expr_Get(expr, env, st, d) ==
    expr_Get_k(operands(expr, env, st, d))

\* The match (base, key) of Expr::Set, after its three operands.
set_result(base, key, value, st) ==
    IF base.t = "Array" /\ key.t = "Number" /\ key.n >= 0
    THEN IF key.n < Len(st.arrays[base.ref])
         THEN With(Ok(value), [st EXCEPT !.arrays[base.ref][key.n + 1] = value])
         ELSE With(err("array index of range"), st)
    ELSE IF base.t = "Object" /\ key.t = "String"
    THEN With(Ok(value), [st EXCEPT !.objects[base.ref] = Object_set(@, key.s, value)])
    ELSE With(err("array only"), st)

expr_Set_k2(bk, value) ==
    IF value.res.tag # "Ok" THEN value
    ELSE set_result(bk[1], bk[2], value.res.value, value.st)
expr_Set_k1(expr, env, d, bk) ==
    IF bk.res.tag # "Ok" THEN bk
    ELSE expr_Set_k2(bk.res.value, execute_expr(expr.v, env, bk.st, d + 1))
expr_Set(expr, env, st, d) ==
    expr_Set_k1(expr, env, d, operands(expr, env, st, d))

execute_expr(expr, env, st, d) ==
    IF d > MaxDepth THEN With(Running, st)
    ELSE CASE expr.e \in BinaryOps -> expr_Binary(expr, env, st, d)
           [] expr.e = "Number" -> With(Ok(Number(expr.n)), st)
           [] expr.e = "String" -> With(Ok(String(expr.s)), st)
           [] expr.e = "Boolean" -> With(Ok(Boolean(expr.b)), st)
           [] expr.e = "Call" -> expr_Call(expr, env, st, d)
           [] expr.e = "MethodCall" -> expr_MethodCall(expr, env, st, d)
           [] expr.e = "Array" -> expr_Array(expr, env, st, d)
           [] expr.e = "Object" -> expr_Object(expr, env, st, d)
           [] expr.e = "Assign" -> expr_Assign(expr, env, st, d)
           [] expr.e = "Identifier" -> expr_Identifier(expr, env, st, d)
           [] expr.e = "Get" -> expr_Get(expr, env, st, d)
           [] expr.e = "Set" -> expr_Set(expr, env, st, d)

(* ------------------------------ main.rs -------------------------------- *)

\* impl fmt::Display for Value: what "ok: {}" writes.
display(v, st) ==
    CASE v.t = "Array" -> [t |-> "Array", len |-> Len(st.arrays[v.ref])]
      [] v.t \in {"NativeFunction", "Function", "Object"} -> [t |-> v.t]
      [] OTHER -> v

\* The root environment main builds: println is defined before execution.
Root == 1
RootEnvs == <<[enclosing |-> 0,
               bindings |-> insert(EmptyMap, "println", NativeFunction("println"))]>>

\* The store the evaluator works on.
Cur == [envs |-> envs, arrays |-> arrays, objects |-> objects, out |-> out,
        calls |-> <<>>]

(* ----------------------------- the trees ------------------------------- *)

num(n) == ENumber(n)
id(name) == Identifier(name)
stmt(e) == ExpressionStatement(e)

\* fun getx() { return x; }   fun setx(v) { x = v; }
FunGetx == Fun("getx", <<>>, Block(<<ReturnStmt(id("x"))>>))
FunSetx == Fun("setx", <<"v">>, Block(<<stmt(Assign("x", id("v")))>>))
\* fun f() { 1 + 1; }
FunF == Fun("f", <<>>, Block(<<stmt(Binary("Plus", num(1), num(1)))>>))
\* fun rec(n) { if (n > 0) { rec(n - 1); } return n; }
FunRec == Fun("rec", <<"n">>,
              Block(<<If(Binary("Greater", id("n"), num(0)),
                         Block(<<stmt(Call(id("rec"), <<Binary("Minus", id("n"), num(1))>>))>>),
                         Statements(<<>>)),
                      ReturnStmt(id("n"))>>))
\* fun w() { while (true) { if (true) { return 7; } x = 0; } print 0; }
FunW == Fun("w", <<>>,
            Block(<<While(EBoolean(TRUE),
                          Block(<<If(EBoolean(TRUE), Block(<<ReturnStmt(num(7))>>),
                                     Statements(<<>>)),
                                  stmt(Assign("x", num(0)))>>)),
                    PrintStmt(num(0))>>))

\* fun inf() { inf(); }
FunInf == Fun("inf", <<>>, Statements(<<stmt(Call(id("inf"), <<>>))>>))

(* ----------------------------- tokens ---------------------------------- *)

\* scanner.rs Token: the variants without payload, and the three with.
T(k) == [k |-> k]
TNumber(n) == [k |-> "Number", n |-> n]
TString(s) == [k |-> "String", s |-> s]
TIdentifier(name) == [k |-> "Identifier", name |-> name]
\* Option<&Token>::None, past the last token.
NoToken == [k |-> "None"]

(* --------------------------- scanner.rs --------------------------------- *)

\* A source is the sequence of its chars, each a string of one char.
LowerChars ==
    {"a", "b", "c", "d", "e", "f", "g", "h", "i", "j", "k", "l", "m", "n",
     "o", "p", "q", "r", "s", "t", "u", "v", "w", "x", "y", "z"}
UpperChars ==
    {"A", "B", "C", "D", "E", "F", "G", "H", "I", "J", "K", "L", "M", "N",
     "O", "P", "Q", "R", "S", "T", "U", "V", "W", "X", "Y", "Z"}
DigitChars == <<"0", "1", "2", "3", "4", "5", "6", "7", "8", "9">>
\* 'a'...'z' | 'A'...'Z'   and   '0'...'9'
IsLetter(c) == c \in LowerChars \cup UpperChars
IsDigit(c) == \E d \in 1..10 : DigitChars[d] = c
DigitValue(c) == (CHOOSE d \in 1..10 : DigitChars[d] = c) - 1

\* iter.peek() after i chars: the next char, "" for None.
NoChar == ""
peek(source, i) == IF i < Len(source) THEN source[i + 1] ELSE NoChar

\* Result<Vec<Token>, String> of scan, and a panic inside it.
SOk(ts) == [tag |-> "Ok", v |-> ts]
SErr(msg) == [tag |-> "Err", msg |-> msg]
SPanic(msg) == [tag |-> "Panic", msg |-> msg]

single_token(ch) ==
    CASE ch = "+" -> T("Plus")
      [] ch = "*" -> T("Star")
      [] ch = "-" -> T("Minus")
      [] ch = "(" -> T("OpenParen")
      [] ch = ")" -> T("CloseParen")
      [] ch = "[" -> T("OpenBracket")
      [] ch = "]" -> T("CloseBracket")
      [] ch = "{" -> T("OpenBrace")
      [] ch = "}" -> T("CloseBrace")
      [] ch = "." -> T("Dot")
      [] ch = ":" -> T("Colon")
      [] ch = "," -> T("Comma")
      [] ch = ";" -> T("Semicolon")
      [] OTHER -> NoToken

\* match name.as_str() { "var" => Token::Var, .., _ => Token::Identifier(name) }
scan_word(name) ==
    CASE name = "var" -> T("Var")
      [] name = "print" -> T("Print")
      [] name = "fun" -> T("Fun")
      [] name = "return" -> T("Return")
      [] name = "while" -> T("While")
      [] name = "for" -> T("For")
      [] name = "if" -> T("If")
      [] name = "else" -> T("Else")
      [] name = "true" -> T("True")
      [] name = "false" -> T("False")
      [] OTHER -> TIdentifier(name)

\* The loop  match iter.peek() { Some(c) that Keeps => push, _ => break }
\* entered after i chars: the number of chars consumed when it breaks.
scan_while(source, i, Keeps(_)) ==
    CHOOSE j \in i..Len(source) :
        /\ \A k \in i..(j - 1) : Keeps(source[k + 1])
        /\ j < Len(source) => ~Keeps(source[j + 1])
\* The String of the chars after the first i up to the first j.
RECURSIVE scan_text(_, _, _)
scan_text(source, i, j) ==
    IF j <= i THEN ""
    ELSE IF j = i + 1 THEN source[j]
    ELSE scan_text(source, i, i + (j - i) \div 2) \o
         scan_text(source, i + (j - i) \div 2, j)

InName(c) == IsLetter(c) \/ c = "_"
InString(c) == c # "\""
IsZero(c) == c = "0"

\* number.parse::<i32>() of a string of digits: checked_mul(10) and
\* checked_add(digit) from the left, Err when one overflows.  k digits are
\* read; the zeros the string starts with leave the number at 0.
RECURSIVE parse_i32_loop(_, _, _)
parse_i32_loop(digits, k, acc) ==
    IF k >= Len(digits) THEN [ok |-> TRUE, n |-> acc]
    ELSE IF acc > I32Max \div 10 THEN [ok |-> FALSE]
    ELSE IF acc * 10 > I32Max - DigitValue(digits[k + 1]) THEN [ok |-> FALSE]
    ELSE parse_i32_loop(digits, k + 1, acc * 10 + DigitValue(digits[k + 1]))
parse_i32(digits) == parse_i32_loop(digits, scan_while(digits, 0, IsZero), 0)

\* scan in its loop: i chars consumed, the tokens pushed, and how it ended
\* once it has.
Scanning(i, ts) == [i |-> i, ts |-> ts, res |-> [tag |-> "None"]]
Scanned(res) == [i |-> 0, ts |-> <<>>, res |-> res]
push(st, j, token) == Scanning(j, Append(st.ts, token))

\* tokens.push(Token::Number(number.parse().unwrap()))
scan_number_k(st, j, n) ==
    IF n.ok THEN push(st, j, TNumber(n.n))
    ELSE Scanned(SPanic(<<"called Result::unwrap() on an Err value", "ParseIntError">>))
\* The closing quote is consumed when the string has one.
scan_string_k(source, st, j) ==
    push(st, IF j < Len(source) THEN j + 1 ELSE j, TString(scan_text(source, st.i + 1, j)))
\* One of ! = > < and the = that may follow it.
scan_pair(source, st, with, without) ==
    IF peek(source, st.i + 1) = "="
    THEN push(st, st.i + 2, with)
    ELSE IF without = NoToken
    THEN Scanned(SPanic(<<"nyi">>))
    ELSE push(st, st.i + 1, without)
scan_char(source, st, n) ==
    CASE single_token(n) # NoToken -> push(st, st.i + 1, single_token(n))
      [] IsLetter(n) ->
            push(st, scan_while(source, st.i + 1, InName),
                 scan_word(scan_text(source, st.i, scan_while(source, st.i + 1, InName))))
      [] IsDigit(n) ->
            scan_number_k(st, scan_while(source, st.i + 1, IsDigit),
                          parse_i32(SubSeq(source, st.i + 1,
                                           scan_while(source, st.i + 1, IsDigit))))
      [] n = "\"" -> scan_string_k(source, st, scan_while(source, st.i + 1, InString))
      [] n = "!" -> scan_pair(source, st, T("Ne"), NoToken)
      [] n = "=" -> scan_pair(source, st, T("Eq"), T("Assign"))
      [] n = ">" -> scan_pair(source, st, T("GreaterEqual"), T("Greater"))
      [] n = "<" -> scan_pair(source, st, T("LessEqual"), T("Less"))
      [] n = " " \/ n = "\n" -> Scanning(st.i + 1, st.ts)
      [] OTHER -> Scanned(SErr(<<"Unexpected token: ", n>>))
\* One turn of the loop of scan: let n = iter.next(); if n.is_none() { break; } ..
scan_turn(source, st) ==
    IF st.res.tag # "None" THEN st
    ELSE IF st.i >= Len(source) THEN Scanned(SOk(st.ts))
    ELSE scan_char(source, st, source[st.i + 1])
\* n turns of the loop, the first half of them and then the rest.
RECURSIVE scan_turns(_, _, _)
scan_turns(source, st, n) ==
    IF st.res.tag # "None" \/ n = 0 THEN st
    ELSE IF n = 1 THEN scan_turn(source, st)
    ELSE scan_turns(source, scan_turns(source, st, n \div 2), n - n \div 2)
\* Every turn consumes a char but the last, which finds none.
scan(source) == scan_turns(source, Scanning(0, <<>>), Len(source) + 1).res

(* --------------------------- parser.rs ---------------------------------- *)

\* self.tokens.get(i)
Parser_current(ts, i) == IF i < Len(ts) THEN ts[i + 1] ELSE NoToken

\* Result<_, String> with the index the parser is left at: on Err one past
\* the token a failed match self.advance() looked at, and the index as it
\* was after a failed match self.current().
POk(v, i) == [ok |-> TRUE, v |-> v, i |-> i]
PErr(msg, i) == [ok |-> FALSE, msg |-> msg, i |-> i]

RECURSIVE Parser_assignment(_, _), Parser_unary(_, _), Parser_expression_list(_, _, _)
RECURSIVE Parser_call_loop(_, _), Parser_multiplication_loop(_, _)
RECURSIVE Parser_addition_loop(_, _), Parser_comparison_loop(_, _)
RECURSIVE Parser_equality_loop(_, _)

Parser_expression(ts, i) == Parser_assignment(ts, i)

Parser_expression_list_k(ts, list, r) ==
    IF ~r.ok THEN r
    ELSE IF Parser_current(ts, r.i).k = "Comma"
    THEN Parser_expression_list(ts, r.i + 1, Append(list, r.v))
    ELSE POk(Append(list, r.v), r.i)
Parser_expression_list(ts, i, list) ==
    Parser_expression_list_k(ts, list, Parser_expression(ts, i))

Parser_array_k(ts, r) ==
    IF ~r.ok THEN r
    ELSE IF Parser_current(ts, r.i).k = "CloseBracket"
    THEN POk(EArray(r.v), r.i + 1)
    ELSE PErr(<<"expecting ] after array literal">>, r.i + 1)
Parser_array(ts, i) ==
    IF Parser_current(ts, i).k = "CloseBracket"
    THEN Parser_array_k(ts, POk(<<>>, i))
    ELSE Parser_array_k(ts, Parser_expression_list(ts, i, <<>>))

Parser_primary_k(ts, i, t) ==
    CASE t.k = "Identifier" -> POk(Identifier(t.name), i + 1)
      [] t.k = "Number" -> POk(ENumber(t.n), i + 1)
      [] t.k = "String" -> POk(EString(t.s), i + 1)
      [] t.k = "True" -> POk(EBoolean(TRUE), i + 1)
      [] t.k = "False" -> POk(EBoolean(FALSE), i + 1)
      [] t.k = "OpenBracket" -> Parser_array(ts, i + 1)
      [] OTHER -> PErr(<<"Unexpected ", t>>, i + 1)
Parser_primary(ts, i) == Parser_primary_k(ts, i, Parser_current(ts, i))

Parser_finish_call_k(ts, expr, r) ==
    IF ~r.ok THEN r
    ELSE IF Parser_current(ts, r.i).k = "CloseParen"
    THEN POk(Call(expr, r.v), r.i + 1)
    ELSE PErr(<<"expecting ) after calle">>, r.i + 1)
Parser_finish_call(ts, i, expr) ==
    IF Parser_current(ts, i + 1).k = "CloseParen"
    THEN Parser_finish_call_k(ts, expr, POk(<<>>, i + 1))
    ELSE Parser_finish_call_k(ts, expr, Parser_expression_list(ts, i + 1, <<>>))

Parser_call_index_k(ts, expr, key) ==
    IF ~key.ok THEN key
    ELSE IF Parser_current(ts, key.i).k = "CloseBracket"
    THEN Parser_call_loop(ts, POk(Get(expr, key.v), key.i + 1))
    ELSE PErr(<<"expecting ] after index">>, key.i + 1)
Parser_call_dot_k(ts, expr, i, t) ==
    IF t.k = "Identifier"
    THEN Parser_call_loop(ts, POk(Get(expr, EString(t.name)), i + 1))
    ELSE PErr(<<"expecting indentifier after dot">>, i + 1)
Parser_call_loop(ts, r) ==
    IF ~r.ok THEN r
    ELSE CASE Parser_current(ts, r.i).k = "OpenParen" ->
                Parser_call_loop(ts, Parser_finish_call(ts, r.i, r.v))
           [] Parser_current(ts, r.i).k = "OpenBracket" ->
                Parser_call_index_k(ts, r.v, Parser_expression(ts, r.i + 1))
           [] Parser_current(ts, r.i).k = "Dot" ->
                Parser_call_dot_k(ts, r.v, r.i + 1, Parser_current(ts, r.i + 1))
           [] OTHER -> r
Parser_call(ts, i) == Parser_call_loop(ts, Parser_primary(ts, i))

Parser_unary_k(expr) ==
    IF ~expr.ok THEN expr
    ELSE POk(Binary("Minus", ENumber(0), expr.v), expr.i)
Parser_unary(ts, i) ==
    IF Parser_current(ts, i).k = "Minus"
    THEN Parser_unary_k(Parser_unary(ts, i + 1))
    ELSE Parser_call(ts, i)

\* One turn of a loop of left-associative operators: left is extended by
\* the operator and the right operand.
Parser_binary_k(op, left, right) ==
    IF ~right.ok THEN right
    ELSE POk(Binary(op, left.v, right.v), right.i)

Parser_multiplication_loop(ts, left) ==
    IF ~left.ok THEN left
    ELSE IF Parser_current(ts, left.i).k = "Star"
    THEN Parser_multiplication_loop(ts,
             Parser_binary_k("Multiply", left, Parser_unary(ts, left.i + 1)))
    ELSE left
Parser_multiplication(ts, i) == Parser_multiplication_loop(ts, Parser_unary(ts, i))

Parser_addition_loop(ts, left) ==
    IF ~left.ok THEN left
    ELSE CASE Parser_current(ts, left.i).k = "Plus" ->
                Parser_addition_loop(ts,
                    Parser_binary_k("Plus", left, Parser_multiplication(ts, left.i + 1)))
           [] Parser_current(ts, left.i).k = "Minus" ->
                Parser_addition_loop(ts,
                    Parser_binary_k("Minus", left, Parser_multiplication(ts, left.i + 1)))
           [] OTHER -> left
Parser_addition(ts, i) == Parser_addition_loop(ts, Parser_multiplication(ts, i))

Parser_comparison_loop(ts, left) ==
    IF ~left.ok THEN left
    ELSE IF Parser_current(ts, left.i).k \in {"Greater", "GreaterEqual", "Less", "LessEqual"}
    THEN Parser_comparison_loop(ts,
             Parser_binary_k(Parser_current(ts, left.i).k, left,
                             Parser_addition(ts, left.i + 1)))
    ELSE left
Parser_comparison(ts, i) == Parser_comparison_loop(ts, Parser_addition(ts, i))

Parser_equality_loop(ts, left) ==
    IF ~left.ok THEN left
    ELSE IF Parser_current(ts, left.i).k \in {"Eq", "Ne"}
    THEN Parser_equality_loop(ts,
             Parser_binary_k(Parser_current(ts, left.i).k, left,
                             Parser_comparison(ts, left.i + 1)))
    ELSE left
Parser_equality(ts, i) == Parser_equality_loop(ts, Parser_comparison(ts, i))

Parser_assignment_k2(left, right) ==
    IF ~right.ok THEN right
    ELSE CASE left.v.e = "Identifier" -> POk(Assign(left.v.name, right.v), right.i)
           [] left.v.e = "Get" -> POk(Set(left.v.b, left.v.key, right.v), right.i)
           [] OTHER -> PErr(<<"Unexpected left hand side of assignment">>, right.i)
Parser_assignment_k1(ts, left) ==
    IF ~left.ok THEN left
    ELSE IF Parser_current(ts, left.i).k = "Assign"
    THEN Parser_assignment_k2(left, Parser_assignment(ts, left.i + 1))
    ELSE left
Parser_assignment(ts, i) == Parser_assignment_k1(ts, Parser_equality(ts, i))

RECURSIVE Parser_statement(_, _), Parser_block_loop(_, _, _)
RECURSIVE Parser_parameters_loop(_, _, _)

\* match self.advance() { Some(Token::Semicolon) => {}, _ => return Err(msg) }
\* after an expression, and the node made of the expression.
Parser_semicolon_k(expr, ts, kind, msg) ==
    IF ~expr.ok THEN expr
    ELSE IF Parser_current(ts, expr.i).k = "Semicolon"
    THEN POk([k |-> kind, expr |-> expr.v], expr.i + 1)
    ELSE PErr(<<msg>>, expr.i + 1)

Parser_print_statement(ts, i) ==
    Parser_semicolon_k(Parser_expression(ts, i + 1), ts, "Print",
                       "Expected semicolon after print")
Parser_return_statement(ts, i) ==
    Parser_semicolon_k(Parser_expression(ts, i + 1), ts, "Return",
                       "Expected semicolon after return")
Parser_expression_statement(ts, i) ==
    Parser_semicolon_k(Parser_expression(ts, i), ts, "ExpressionStatement",
                       "Expected semicolon after expression")

Parser_block_k(ts, statements, r) ==
    IF ~r.ok THEN r
    ELSE Parser_block_loop(ts, r.i, Append(statements, r.v))
Parser_block_loop(ts, i, statements) ==
    CASE Parser_current(ts, i).k = "CloseBrace" -> POk(Statements(statements), i + 1)
      [] Parser_current(ts, i).k = "None" -> PErr(<<"missing closing brace }">>, i)
      [] OTHER -> Parser_block_k(ts, statements, Parser_statement(ts, i))
Parser_block(ts, i) ==
    IF Parser_current(ts, i).k = "OpenBrace"
    THEN Parser_block_loop(ts, i + 1, <<>>)
    ELSE PErr(<<"expected open brace {{">>, i + 1)

Parser_fun_k(name, parameters, block) ==
    IF ~block.ok THEN block
    ELSE POk(Fun(name, parameters, block.v), block.i)
Parser_parameters_k(ts, name, parameters) ==
    IF ~parameters.ok THEN parameters
    ELSE IF Parser_current(ts, parameters.i).k = "CloseParen"
    THEN Parser_fun_k(name, parameters.v, Parser_block(ts, parameters.i + 1))
    ELSE PErr(<<"expected close parens )">>, parameters.i + 1)
Parser_parameters_loop(ts, i, parameters) ==
    IF Parser_current(ts, i).k # "Identifier"
    THEN PErr(<<"expected parameter name">>, i + 1)
    ELSE IF Parser_current(ts, i + 1).k = "Comma"
    THEN Parser_parameters_loop(ts, i + 2, Append(parameters, Parser_current(ts, i).name))
    ELSE POk(Append(parameters, Parser_current(ts, i).name), i + 1)
Parser_fun_statement(ts, i) ==
    IF Parser_current(ts, i + 1).k # "Identifier"
    THEN PErr(<<"expected function name">>, i + 2)
    ELSE IF Parser_current(ts, i + 2).k # "OpenParen"
    THEN PErr(<<"expected open parens (">>, i + 3)
    ELSE IF Parser_current(ts, i + 3).k = "CloseParen"
    THEN Parser_parameters_k(ts, Parser_current(ts, i + 1).name, POk(<<>>, i + 3))
    ELSE Parser_parameters_k(ts, Parser_current(ts, i + 1).name,
                             Parser_parameters_loop(ts, i + 3, <<>>))

\* ( condition ) of while and if: the condition, left after the ).
Parser_condition_k(ts, condition) ==
    IF ~condition.ok THEN condition
    ELSE IF Parser_current(ts, condition.i).k = "CloseParen"
    THEN POk(condition.v, condition.i + 1)
    ELSE PErr(<<"expected close parens ) after condition">>, condition.i + 1)
Parser_condition(ts, i) ==
    IF Parser_current(ts, i + 1).k = "OpenParen"
    THEN Parser_condition_k(ts, Parser_expression(ts, i + 2))
    ELSE PErr(<<"expected open parens (">>, i + 2)

Parser_while_k2(condition, block) ==
    IF ~block.ok THEN block
    ELSE POk(While(condition, block.v), block.i)
Parser_while_k1(ts, condition) ==
    IF ~condition.ok THEN condition
    ELSE Parser_while_k2(condition.v, Parser_block(ts, condition.i))
Parser_while_statement(ts, i) == Parser_while_k1(ts, Parser_condition(ts, i))

Parser_if_k3(condition, then, other) ==
    IF ~other.ok THEN other
    ELSE POk(If(condition, then, other.v), other.i)
Parser_if_k2(ts, condition, then) ==
    IF ~then.ok THEN then
    ELSE IF Parser_current(ts, then.i).k = "Else"
    THEN Parser_if_k3(condition, then.v, Parser_block(ts, then.i + 1))
    ELSE Parser_if_k3(condition, then.v, POk(Statements(<<>>), then.i))
Parser_if_k1(ts, condition) ==
    IF ~condition.ok THEN condition
    ELSE Parser_if_k2(ts, condition.v, Parser_block(ts, condition.i))
Parser_if_statement(ts, i) == Parser_if_k1(ts, Parser_condition(ts, i))

\* Option<Node>::None and Option<Expr>::None of for_statement.
NoNode == [k |-> "None"]
NoExpr == [e |-> "None"]
\* The desugaring of for into while.
Parser_for_desugar_body(update, body) ==
    IF update.e = "None" THEN body
    ELSE Statements(<<body, ExpressionStatement(update)>>)
Parser_for_desugar(init, condition, update, body) ==
    IF init.k = "None"
    THEN While(condition, Parser_for_desugar_body(update, body))
    ELSE Statements(<<init, While(condition, Parser_for_desugar_body(update, body))>>)
Parser_for_k4(init, condition, update, body) ==
    IF ~body.ok THEN body
    ELSE POk(Parser_for_desugar(init, condition, update, body.v), body.i)
Parser_for_k3(ts, init, condition, update) ==
    IF ~update.ok THEN update
    ELSE IF Parser_current(ts, update.i).k = "CloseParen"
    THEN Parser_for_k4(init, condition, update.v, Parser_block(ts, update.i + 1))
    ELSE PErr(<<"expected ) after for">>, update.i + 1)
Parser_for_k2(ts, init, condition) ==
    IF ~condition.ok THEN condition
    ELSE IF Parser_current(ts, condition.i).k # "Semicolon"
    THEN PErr(<<"expected semicolon after condition">>, condition.i + 1)
    ELSE IF Parser_current(ts, condition.i + 1).k = "CloseParen"
    THEN Parser_for_k3(ts, init, condition.v, POk(NoExpr, condition.i + 1))
    ELSE Parser_for_k3(ts, init, condition.v, Parser_expression(ts, condition.i + 1))
Parser_for_k1(ts, init) ==
    IF ~init.ok THEN init
    ELSE IF Parser_current(ts, init.i).k = "Semicolon"
    THEN Parser_for_k2(ts, init.v, POk(EBoolean(TRUE), init.i))
    ELSE Parser_for_k2(ts, init.v, Parser_expression(ts, init.i))
Parser_for_statement(ts, i) ==
    IF Parser_current(ts, i + 1).k # "OpenParen"
    THEN PErr(<<"expected open parens ( after for">>, i + 2)
    ELSE IF Parser_current(ts, i + 2).k = "Semicolon"
    THEN Parser_for_k1(ts, POk(NoNode, i + 3))
    ELSE Parser_for_k1(ts, Parser_expression_statement(ts, i + 2))

\* The tokens a statement starts with other than an expression's.
StatementTokens == {"Print", "Fun", "Return", "While", "For", "If", "OpenBrace"}
Parser_statement(ts, i) ==
    CASE Parser_current(ts, i).k = "Print" -> Parser_print_statement(ts, i)
      [] Parser_current(ts, i).k = "Fun" -> Parser_fun_statement(ts, i)
      [] Parser_current(ts, i).k = "Return" -> Parser_return_statement(ts, i)
      [] Parser_current(ts, i).k = "While" -> Parser_while_statement(ts, i)
      [] Parser_current(ts, i).k = "For" -> Parser_for_statement(ts, i)
      [] Parser_current(ts, i).k = "If" -> Parser_if_statement(ts, i)
      [] Parser_current(ts, i).k = "OpenBrace" -> Parser_block(ts, i)
      [] OTHER -> Parser_expression_statement(ts, i)

\* Parser::statements as one function: the loop until no token is left.
RECURSIVE Parser_statements_loop(_, _, _)
Parser_statements_k(ts, statements, r) ==
    IF ~r.ok THEN r
    ELSE IF Parser_current(ts, r.i).k = "None"
    THEN POk(Statements(Append(statements, r.v)), r.i)
    ELSE Parser_statements_loop(ts, r.i, Append(statements, r.v))
Parser_statements_loop(ts, i, statements) ==
    Parser_statements_k(ts, statements, Parser_statement(ts, i))
Parser_parse(ts) == Parser_statements_loop(ts, 0, <<>>)

\* main from the source to the tree it hands to execute_node:
\* scan(&buffer), Parser::new(tokens.unwrap()).parse(), node.unwrap().
Parsed(source) == Parser_parse(scan(source).v).v
\* fun len(a) { a.push(4); return a.length; } print len([1, 2, 3]);
PushInCallText ==
    <<"f", "u", "n", " ", "l", "e", "n", "(", "a", ")", " ", "{", " ", "a",
      ".", "p", "u", "s", "h", "(", "4", ")", ";", " ", "r", "e", "t", "u",
      "r", "n", " ", "a", ".", "l", "e", "n", "g", "t", "h", ";", " ", "}",
      " ", "p", "r", "i", "n", "t", " ", "l", "e", "n", "(", "[", "1", ",",
      " ", "2", ",", " ", "3", "]", ")", ";">>

\* fun s(a) { a[0 - 1] = 9; } s([1, 2, 3]);
NegativeSetText ==
    <<"f", "u", "n", " ", "s", "(", "a", ")", " ", "{", " ", "a", "[", "0",
      " ", "-", " ", "1", "]", " ", "=", " ", "9", ";", " ", "}", " ", "s",
      "(", "[", "1", ",", " ", "2", ",", " ", "3", "]", ")", ";">>
\* fun g(k, m) { return m; } print g(1);
MissingParameterText ==
    <<"f", "u", "n", " ", "g", "(", "k", ",", " ", "m", ")", " ", "{", " ",
      "r", "e", "t", "u", "r", "n", " ", "m", ";", " ", "}", " ", "p", "r",
      "i", "n", "t", " ", "g", "(", "1", ")", ";">>

\* The statements of the trees execute_node is called with, in any order.
\* The trees are of every kind of Node and Expr execute.rs matches; they
\* are written here as trees, and a comment gives one in the notation of
\* the language.  Parser::parse of this tree makes no Node::Var, no
\* Node::Block, no Expr::MethodCall and no Expr::Object (var is refused
\* with "Unexpected Some(Var)", braces give Node::Statements, b.push(4)
\* gives Call(Get(b, "push"), [4])), so a tree holding one of them is
\* handed to execute_node by a caller other than main.  The trees
\* Parsed(..) are those main hands over for a source.
Pool == {
    Statements(<<Var("x", num(1)), FunGetx, FunF, FunRec, FunW>>),
    FunSetx,
    stmt(Assign("x", num(2))),
    PrintStmt(Call(id("getx"), <<>>)),
    stmt(Call(id("setx"), <<num(5)>>)),
    Block(<<Var("x", num(8)), stmt(Assign("x", num(9))), PrintStmt(Call(id("getx"), <<>>))>>),
    Var("a", EArray(<<num(1), num(2), num(3)>>)),
    Var("b", id("a")),
    stmt(MethodCall(id("b"), EString("push"), <<num(4)>>)),
    PrintStmt(Call(id("rec"), <<num(2)>>)),
    PrintStmt(Call(id("f"), <<>>)),
    PrintStmt(Call(id("w"), <<>>)),
    ReturnStmt(num(1)),
    While(Binary("Less", id("x"), num(3)),
          Block(<<stmt(Assign("x", Binary("Plus", id("x"), num(1))))>>)),
    If(Binary("Eq", id("x"), num(1)), Block(<<PrintStmt(id("x"))>>), Statements(<<>>)),
    PrintStmt(Binary("Plus", num(1), EBoolean(TRUE))),
    PrintStmt(Get(id("a"), num(3))),
    stmt(Set(id("a"), Binary("Minus", num(0), num(1)), num(9))),
    Statements(<<Var("p", Get(id("a"), EString("push"))),
                 stmt(Call(id("p"), <<num(4)>>))>>),
    stmt(Call(id("setx"), <<>>)),
    Statements(<<FunInf, stmt(Call(id("inf"), <<>>))>>),
    Statements(<<stmt(MethodCall(id("a"), EString("push"), <<num(4), num(5)>>)),
                 stmt(Set(id("a"), num(0), num(7)))>>),
    PrintStmt(Binary("Plus", num(I32Max), num(1))),
    \* var o = {n: 1}; o.self = o; print o;
    Statements(<<Var("o", EObject(<<<<"n", num(1)>>>>)),
                 stmt(Set(id("o"), EString("self"), id("o"))),
                 PrintStmt(id("o"))>>),
    Parsed(PushInCallText),
    Parsed(NegativeSetText),
    Parsed(MissingParameterText)
}

(* ------------------------- the host's run ------------------------------ *)

\* execute_node is called with a tree (execute.rs 97): the parser has
\* nothing to do.  The caller builds the root environment and renders
\* the result as main does; what main writes before it executes (the
\* tokens and the node) is in ParserSpec.
ParserIdle ==
    /\ tokens = <<>>
    /\ index = 0
    /\ parsed = <<>>
    /\ parse_node = [tag |-> "Given"]

Init ==
    /\ envs = RootEnvs
    /\ arrays = <<>>
    /\ objects = <<>>
    /\ out = <<>>
    /\ last = Nothing
    /\ result = [tag |-> "None"]
    /\ pc = "run"
    /\ nsteps = 0
    /\ build \in {"debug", "release"}
    /\ ParserIdle

\* One turn of the loop of the top-level Node::Statements:
\* last = execute_node(&node, env)?
Step_k(r) ==
    /\ envs' = r.st.envs
    /\ arrays' = r.st.arrays
    /\ objects' = r.st.objects
    /\ out' \in Written(r.st.out)
    /\ nsteps' = nsteps + 1
    /\ IF r.res.tag = "Ok"
       THEN /\ last' = r.res.value
            /\ UNCHANGED <<result, pc>>
       ELSE /\ result' = r.res
            /\ pc' = CASE r.res.tag = "Abort" -> "aborted"
                       [] r.res.tag = "Running" -> "running"
                       [] OTHER -> "returned"
            /\ UNCHANGED last
    /\ UNCHANGED build
    /\ UNCHANGED pvars
Step(s) ==
    /\ pc = "run"
    /\ nsteps < MaxStmts
    /\ Step_k(execute_node(s, Root, Cur, 1))

ExecStatements(s) == s.k = "Statements" /\ Step(s)
ExecExpressionStatement(s) == s.k = "ExpressionStatement" /\ Step(s)
ExecBlock(s) == s.k = "Block" /\ Step(s)
ExecVar(s) == s.k = "Var" /\ Step(s)
ExecFun(s) == s.k = "Fun" /\ Step(s)
ExecReturn(s) == s.k = "Return" /\ Step(s)
ExecPrint(s) == s.k = "Print" /\ Step(s)
ExecWhile(s) == s.k = "While" /\ Step(s)
ExecIf(s) == s.k = "If" /\ Step(s)

\* The statements are exhausted: execute_node returns Ok(last) to main.
Finish ==
    /\ pc = "run"
    /\ result' = Ok(last)
    /\ pc' = "returned"
    /\ UNCHANGED <<envs, arrays, objects, out, last, nsteps, build>>
    /\ UNCHANGED pvars

\* main's match on the result: "ok: {}" or "error: {:?}"; the formatter
\* dies in a returned value that holds a cycle, the line begun.
Report ==
    /\ pc = "returned"
    /\ IF result.tag = "Ok"
       THEN /\ out' = Append(out, [chan |-> "ok", text |-> display(result.value, Cur)])
            /\ pc' = "done"
       ELSE IF result.tag = "Message"
       THEN /\ out' = Append(out, [chan |-> "error", text |-> result])
            /\ pc' = "done"
       ELSE IF debug_ends(result.value, Cur, {})
       THEN /\ out' = Append(out, [chan |-> "error",
                                   text |-> Return(debug(result.value, Cur))])
            /\ pc' = "done"
       ELSE /\ out' \in Written(Append(out, Unterminated("error",
                               {Return(c) : c \in debug_cut(result.value, Cur, {})})))
            /\ pc' = "aborted"
    /\ UNCHANGED <<envs, arrays, objects, last, result, nsteps, build>>
    /\ UNCHANGED pvars

Next ==
    \/ \E s \in Pool : ExecStatements(s)
    \/ \E s \in Pool : ExecExpressionStatement(s)
    \/ \E s \in Pool : ExecBlock(s)
    \/ \E s \in Pool : ExecVar(s)
    \/ \E s \in Pool : ExecFun(s)
    \/ \E s \in Pool : ExecReturn(s)
    \/ \E s \in Pool : ExecPrint(s)
    \/ \E s \in Pool : ExecWhile(s)
    \/ \E s \in Pool : ExecIf(s)
    \/ Finish
    \/ Report

Spec == Init /\ [][Next]_vars

(* ------------------------- the host's parse ---------------------------- *)

\* The tokens of the sources of the test for_statement of test.rs.
\* for (a = 1; a < 10; i = i + 1)   and   for (var a = 1; a < 10; i = i + 1)
ForHead ==
    <<T("For"), T("OpenParen"), TIdentifier("a"), T("Assign"), TNumber(1),
      T("Semicolon"), TIdentifier("a"), T("Less"), TNumber(10), T("Semicolon"),
      TIdentifier("i"), T("Assign"), TIdentifier("i"), T("Plus"), TNumber(1),
      T("CloseParen")>>
ForVarHead == SubSeq(ForHead, 1, 2) \o <<T("Var")>> \o SubSeq(ForHead, 3, Len(ForHead))
\* print i;   and   { print i; }
PrintI == <<T("Print"), TIdentifier("i"), T("Semicolon")>>
BracedPrintI == <<T("OpenBrace")>> \o PrintI \o <<T("CloseBrace")>>
\* The four sources of the test for_statement of test.rs.
ForPlain == ForHead \o PrintI
ForBraced == ForHead \o BracedPrintI
ForVarPlain == ForVarHead \o PrintI
ForVarBraced == ForVarHead \o BracedPrintI
TestedFors == {ForPlain, ForBraced, ForVarPlain, ForVarBraced}

\* Sources as main reads them from the file.
\* for (a = 1; a < 10; i = i + 1)   and   for (var a = 1; a < 10; i = i + 1)
ForHeadText ==
    <<"f", "o", "r", " ", "(", "a", " ", "=", " ", "1", ";", " ", "a", " ",
      "<", " ", "1", "0", ";", " ", "i", " ", "=", " ", "i", " ", "+", " ",
      "1", ")">>
ForVarHeadText ==
    <<"f", "o", "r", " ", "(", "v", "a", "r", " ", "a", " ", "=", " ", "1",
      ";", " ", "a", " ", "<", " ", "1", "0", ";", " ", "i", " ", "=", " ",
      "i", " ", "+", " ", "1", ")">>
\*  print i;   and    { print i; }   after the head
PrintIText ==
    <<" ", "p", "r", "i", "n", "t", " ", "i", ";">>
BracedPrintIText ==
    <<" ", "{", " ", "p", "r", "i", "n", "t", " ", "i", ";", " ", "}">>
\* The four sources of the test for_statement of test.rs.
ForPlainText == ForHeadText \o PrintIText
ForBracedText == ForHeadText \o BracedPrintIText
ForVarPlainText == ForVarHeadText \o PrintIText
ForVarBracedText == ForVarHeadText \o BracedPrintIText
TestedForTexts == {ForPlainText, ForBracedText, ForVarPlainText, ForVarBracedText}

SourcePool ==
    TestedForTexts \cup {
    \* print i;
    Tail(PrintIText),
    \* for (;;) { }
    <<"f", "o", "r", " ", "(", ";", ";", ")", " ", "{", " ", "}">>,
    \* fun f(a, b) { return a; }
    <<"f", "u", "n", " ", "f", "(", "a", ",", " ", "b", ")", " ", "{", " ",
      "r", "e", "t", "u", "r", "n", " ", "a", ";", " ", "}">>,
    \* return 1;
    <<"r", "e", "t", "u", "r", "n", " ", "1", ";">>,
    \* while (a < 10) { a = a + 1; }
    <<"w", "h", "i", "l", "e", " ", "(", "a", " ", "<", " ", "1", "0", ")",
      " ", "{", " ", "a", " ", "=", " ", "a", " ", "+", " ", "1", ";", " ",
      "}">>,
    \* if (a == 1) { print -a; } else { }
    <<"i", "f", " ", "(", "a", " ", "=", "=", " ", "1", ")", " ", "{", " ",
      "p", "r", "i", "n", "t", " ", "-", "a", ";", " ", "}", " ", "e", "l",
      "s", "e", " ", "{", " ", "}">>,
    \* { a[0] = b.c; }
    <<"{", " ", "a", "[", "0", "]", " ", "=", " ", "b", ".", "c", ";", " ",
      "}">>,
    \* a()([1, true] * "s");
    <<"a", "(", ")", "(", "[", "1", ",", " ", "t", "r", "u", "e", "]", " ",
      "*", " ", "\"", "s", "\"", ")", ";">>,
    \* 123 = 1;
    <<"1", "2", "3", " ", "=", " ", "1", ";">>,
    \* 1 + 1
    <<"1", " ", "+", " ", "1">>,
    \* print a_b != 1;\n
    <<"p", "r", "i", "n", "t", " ", "a", "_", "b", " ", "!", "=", " ", "1",
      ";", "\n">>,
    \* print !a;     (the scanner panics on a ! that no = follows)
    <<"p", "r", "i", "n", "t", " ", "!", "a", ";">>,
    \* print 2147483648;     (the number does not fit i32: number.parse().unwrap() panics)
    <<"p", "r", "i", "n", "t", " ", "2", "1", "4", "7", "4", "8", "3", "6",
      "4", "8", ";">>,
    \* print a % 2;     (scan returns Err: main writes it and panics on tokens.unwrap())
    <<"p", "r", "i", "n", "t", " ", "a", " ", "%", " ", "2", ";">>,
    \* print "s     (a string the source ends in)
    <<"p", "r", "i", "n", "t", " ", "\"", "s">>}

RECURSIVE Sources(_)
\* The sources of at most n statements of the pool.
Sources(n) ==
    IF n = 0 THEN {<<>>}
    ELSE Sources(n - 1) \cup {s \o t : s \in Sources(n - 1), t \in SourcePool}

\* main up to the parse: let tokens = scan(&buffer); println!("{:?}", tokens);
\* Parser::new(tokens.unwrap()).  A panic inside scan ends the process
\* with nothing written; an Err of scan is written and tokens.unwrap()
\* panics; with Ok the tokens go to the parser, the evaluator has not
\* started.
ParserInit_k(r) ==
    /\ envs = RootEnvs
    /\ arrays = <<>>
    /\ objects = <<>>
    /\ tokens = IF r.tag = "Ok" THEN r.v ELSE <<>>
    /\ out = CASE r.tag = "Ok" -> <<[chan |-> "main", text |-> <<"Ok", r.v>>]>>
               [] r.tag = "Err" -> <<[chan |-> "main", text |-> <<"Err", r.msg>>]>>
               [] r.tag = "Panic" -> <<>>
    /\ last = Nothing
    /\ result = CASE r.tag = "Ok" -> [tag |-> "None"]
                  [] r.tag = "Err" ->
                        Abort(<<"called Result::unwrap() on an Err value", r.msg>>)
                  [] r.tag = "Panic" -> Abort(r.msg)
    /\ pc = IF r.tag = "Ok" THEN "parse" ELSE "aborted"
    /\ nsteps = 0
    /\ build \in {"debug", "release"}
    /\ index = 0
    /\ parsed = <<>>
    /\ parse_node = [tag |-> "None"]
ParserInit == \E source \in Sources(MaxSource) : ParserInit_k(scan(source))

\* One turn of the loop of Parser::statements:
\* statements.push(Box::new(self.statement()?)); if self.current().is_none() { break; }
\* and after the break Ok(Node::Statements(statements)).
\* When parse returns main writes the {:?} of its result (println!("{:?}", node)).
\* A statement that fails leaves self.index where its last advance put it.
ParseTurn_k(r) ==
    /\ IF ~r.ok
       THEN /\ parse_node' = [tag |-> "Err", msg |-> r.msg]
            /\ index' = r.i
            /\ UNCHANGED parsed
       ELSE /\ index' = r.i
            /\ parsed' = Append(parsed, r.v)
            /\ parse_node' = IF Parser_current(tokens, r.i).k = "None"
                             THEN [tag |-> "Ok", v |-> Statements(Append(parsed, r.v))]
                             ELSE parse_node
    /\ out' = IF parse_node'.tag = "None" THEN out
              ELSE Append(out, [chan |-> "main", text |-> parse_node'])
    /\ UNCHANGED <<envs, arrays, objects, last, result, pc, nsteps, build, tokens>>
ParseTurn ==
    /\ pc = "parse"
    /\ parse_node.tag = "None"
    /\ ParseTurn_k(Parser_statement(tokens, index))

ParsePrint == Parser_current(tokens, index).k = "Print" /\ ParseTurn
ParseFun == Parser_current(tokens, index).k = "Fun" /\ ParseTurn
ParseReturn == Parser_current(tokens, index).k = "Return" /\ ParseTurn
ParseWhile == Parser_current(tokens, index).k = "While" /\ ParseTurn
ParseFor == Parser_current(tokens, index).k = "For" /\ ParseTurn
ParseIf == Parser_current(tokens, index).k = "If" /\ ParseTurn
ParseBlock == Parser_current(tokens, index).k = "OpenBrace" /\ ParseTurn
ParseExpressionStatement ==
    Parser_current(tokens, index).k \notin StatementTokens /\ ParseTurn

ParserNext ==
    \/ ParsePrint
    \/ ParseFun
    \/ ParseReturn
    \/ ParseWhile
    \/ ParseFor
    \/ ParseIf
    \/ ParseBlock
    \/ ParseExpressionStatement

ParserSpec == ParserInit /\ [][ParserNext]_vars

(* ======================================================================= *)
(* The claims.  A claim about what programs do is stated of every running  *)
(* state the host can reach: whatever statements were executed so far, the *)
(* program may go on with the statements the claim is about.               *)
(* ======================================================================= *)

\* The program goes on with the statements ss (execute_node on the rest
\* of the top-level Node::Statements).
Run(ss) == execute_node(Statements(ss), Root, Cur, 0)
\* An expression evaluated at top level in the store st.
Eval(e, st) == execute_expr(e, Root, st, 1).res

Bound(name) == name \in DOMAIN envs[Root].bindings
Val(name) == envs[Root].bindings[name]

(* ------------------------------- C1 ------------------------------------ *)

\* How q becomes an alias of the composite p holds: declaration,
\* assignment, argument passing, storing in an array, storing in a record.
AliasForms ==
    { <<Var("q", id("p"))>>,
      <<Var("q", NoInit), stmt(Assign("q", id("p")))>>,
      <<Fun("same", <<"v">>, Block(<<ReturnStmt(id("v"))>>)),
        Var("q", Call(id("same"), <<id("p")>>))>>,
      <<Var("c", EArray(<<id("p")>>)), Var("q", Get(id("c"), num(0)))>>,
      <<Var("c", EObject(<< <<"g", id("p")>> >>)),
        Var("q", Get(id("c"), EString("g")))>> }

Push(via, v) == [op |-> "push", via |-> via, i |-> 0, v |-> v]
SetAt(via, i, v) == [op |-> "set", via |-> via, i |-> i, v |-> v]
MutStmt(m) ==
    IF m.op = "push"
    THEN stmt(MethodCall(id(m.via), EString("push"), <<num(m.v)>>))
    ELSE stmt(Set(id(m.via), num(m.i), num(m.v)))
MutStmts(ms) == [j \in 1..Len(ms) |-> MutStmt(ms[j])]

\* Sequences of push and index Set through either alias.
MutSeqs ==
    { <<Push("q", 4)>>,
      <<SetAt("p", 0, 9)>>,
      <<Push("p", 5), SetAt("q", 3, 8)>>,
      <<SetAt("q", 1, 7), Push("q", 6), Push("p", 5), SetAt("p", 4, 0)>> }

\* What one shared array holds after the mutations, whoever made them.
RECURSIVE Shared(_, _, _)
Shared(elems, ms, j) ==
    IF j > Len(ms) THEN elems
    ELSE Shared(IF ms[j].op = "push" THEN Append(elems, Number(ms[j].v))
                ELSE [elems EXCEPT ![ms[j].i + 1] = Number(ms[j].v)],
                ms, j + 1)

\* Every Get through p and through q reads the shared array.
ReadsShared(r, want) ==
    /\ r.res.tag = "Ok"
    /\ \A name \in {"p", "q"} :
          /\ Eval(Get(id(name), EString("length")), r.st) = Ok(Number(Len(want)))
          /\ \A i \in 0..(Len(want) - 1) :
                Eval(Get(id(name), num(i)), r.st) = Ok(want[i + 1])
          /\ Eval(Get(id(name), num(Len(want))), r.st) = err("array index of range")

\* The arrays the program may alias: a new one, and the one a holds.
ArraySources ==
    {EArray(<<num(1), num(2), num(3)>>)}
        \cup (IF Bound("a") /\ Val("a").t = "Array" THEN {id("a")} ELSE {})
Elems(src) ==
    IF src.e = "Array" THEN <<Number(1), Number(2), Number(3)>>
    ELSE arrays[Val("a").ref]

\* The same for a record: field Sets through either alias.
ReadsSharedRecord(r) ==
    /\ r.res.tag = "Ok"
    /\ \A name \in {"p", "q"} :
          /\ Eval(Get(id(name), EString("f")), r.st) = Ok(Number(2))
          /\ Eval(Get(id(name), EString("g")), r.st) = Ok(Number(3))
          /\ Eval(Get(id(name), EString("h")), r.st) = Ok(Number(1))

\* C1: two aliases of one array or record, however the alias was made
\* (declaration, assignment, argument passing, storing in a composite),
\* read the same after any pushes and Sets made through either of them:
\* length and every element are those of the one shared storage.
C1_ReferenceSemantics ==
    pc = "run" =>
        \A form \in AliasForms :
            /\ \A src \in ArraySources : \A ms \in MutSeqs :
                  ReadsShared(Run(<<Var("p", src)>> \o form \o MutStmts(ms)),
                              Shared(Elems(src), ms, 1))
            /\ ReadsSharedRecord(
                  Run(<<Var("p", EObject(<< <<"f", num(1)>>, <<"h", num(1)>> >>))>>
                      \o form
                      \o <<stmt(Set(id("q"), EString("f"), num(2))),
                           stmt(Set(id("p"), EString("g"), num(3)))>>))

\* a and b are one array and a push through one of them has grown it.
C1_Witness ==
    /\ pc = "run"
    /\ Bound("a") /\ Bound("b")
    /\ Val("a").t = "Array" /\ Val("a") = Val("b")
    /\ Len(arrays[Val("a").ref]) = 4

(* ------------------------------- C2 ------------------------------------ *)

\* fun gety() { return y; }   fun sety(v) { y = v; }
FunGety == Fun("gety", <<>>, Block(<<ReturnStmt(id("y"))>>))
FunSety == Fun("sety", <<"v">>, Block(<<stmt(Assign("y", id("v")))>>))

\* Literals and the values they evaluate to.
Lits == {num(11), EString("s"), EBoolean(FALSE)}
LitValue(e) ==
    CASE e.e = "Number" -> Number(e.n)
      [] e.e = "String" -> String(e.s)
      [] e.e = "Boolean" -> Boolean(e.b)

\* What the root node binds name to in the store the run r leaves.
RootVal(r, name) == Environment_get(r.st.envs, Root, name)
Finished(r) == r.res.tag = "Ok"

\* y and its closures in one scope: the write after the definition is
\* read by the call, the write made by the call is read outside.
ClosureSameScope(v1, v2, v3) ==
    <<Var("y", v1), FunGety, FunSety,
      stmt(Assign("y", v2)), Var("r1", Call(id("gety"), <<>>)),
      stmt(Call(id("sety"), <<v3>>)), Var("r2", id("y")),
      Var("r3", Call(id("gety"), <<>>))>>
\* The closures are defined in a block, y in the scope enclosing it.
ClosureInBlock(v1, v2, v3) ==
    <<Var("y", v1), Var("r1", NoInit), Var("r3", NoInit),
      Block(<<FunGety, FunSety,
              stmt(Assign("y", v2)), stmt(Assign("r1", Call(id("gety"), <<>>))),
              stmt(Call(id("sety"), <<v3>>)),
              stmt(Assign("r3", Call(id("gety"), <<>>)))>>),
      Var("r2", id("y"))>>
\* The closures outlive the block that holds y.
ClosureEscapes(v1, v2, v3) ==
    <<Var("g", NoInit), Var("s", NoInit),
      Block(<<Var("y", v1),
              Block(<<FunGety, FunSety, stmt(Assign("g", id("gety"))),
                      stmt(Assign("s", id("sety")))>>),
              stmt(Assign("y", v2))>>),
      Var("r1", Call(id("g"), <<>>)),
      stmt(Call(id("s"), <<v3>>)),
      Var("r2", Call(id("g"), <<>>)),
      Var("r3", Call(id("g"), <<>>))>>

ClosureSees(r, v2, v3) ==
    /\ Finished(r)
    /\ RootVal(r, "r1") = Ok(LitValue(v2))
    /\ RootVal(r, "r2") = Ok(LitValue(v3))
    /\ RootVal(r, "r3") = Ok(LitValue(v3))

\* getx and setx of the state, defined by statements executed earlier.
HasGetx == Bound("x") /\ Bound("getx") /\ Val("getx").t = "Function"
HasSetx == Bound("x") /\ Bound("setx") /\ Val("setx").t = "Function"

\* C2: a closure holds its defining environment node, not a copy of it:
\* a call reads what the enclosing variable holds at call time (every write
\* made after the definition), and a write made in the body is what the
\* enclosing scope reads after the call.
C2_ClosureCapture ==
    pc = "run" =>
        \A v1, v2, v3 \in Lits :
            /\ ClosureSees(Run(ClosureSameScope(v1, v2, v3)), v2, v3)
            /\ ClosureSees(Run(ClosureInBlock(v1, v2, v3)), v2, v3)
            /\ ClosureSees(Run(ClosureEscapes(v1, v2, v3)), v2, v3)
            /\ HasGetx =>
                 Run(<<stmt(Assign("x", v2)), stmt(Call(id("getx"), <<>>))>>).res
                    = Ok(LitValue(v2))
            /\ HasSetx =>
                 Run(<<stmt(Call(id("setx"), <<v3>>)), stmt(id("x"))>>).res
                    = Ok(LitValue(v3))

\* getx was defined while x was 1, x was assigned 2, and the call of getx
\* that followed printed 2.
C2_Witness ==
    /\ pc = "run"
    /\ HasGetx /\ Val("x") = Number(2)
    /\ out = <<[chan |-> "print", text |-> Number(2)]>>

(* ------------------------------- C3 ------------------------------------ *)

\* { var n = v1; n = v2; print n; }
DeclaringBlock(n, v1, v2) ==
    Block(<<Var(n, v1), stmt(Assign(n, v2)), PrintStmt(id(n))>>)

\* The run r left every node that existed before it as it was, and the
\* root resolves n as before (to the same value, or to no binding).
OuterKept(r, n) ==
    /\ Finished(r)
    /\ \A e \in 1..Len(envs) :
          /\ n \in DOMAIN r.st.envs[e].bindings <=> n \in DOMAIN envs[e].bindings
          /\ n \in DOMAIN envs[e].bindings =>
                r.st.envs[e].bindings[n] = envs[e].bindings[n]
    /\ RootVal(r, n) = Environment_get(envs, Root, n)

\* The block is nested in a block, or in a function body, that binds n to
\* v0 itself: r1 is what that enclosing scope reads after the block.
NestedInBlock(n, v0, v1, v2) ==
    <<Var("r1", NoInit),
      Block(<<Var(n, v0), DeclaringBlock(n, v1, v2), stmt(Assign("r1", id(n)))>>)>>
NestedInCall(n, v0, v1, v2) ==
    <<Fun("h", <<n>>, Block(<<DeclaringBlock(n, v1, v2), ReturnStmt(id(n))>>)),
      Var("r1", Call(id("h"), <<v0>>))>>

InnerKept(r, n, v0) == OuterKept(r, n) /\ RootVal(r, "r1") = Ok(LitValue(v0))

\* C3: a block that declares n with var and assigns n only inside leaves
\* the binding of n in every enclosing node as it was before the block:
\* the same value where there was one, still none where there was none.
C3_BlockScoping ==
    pc = "run" =>
        \A n \in {"x", "a", "zz"} : \A v1, v2 \in Lits :
            /\ OuterKept(Run(<<DeclaringBlock(n, v1, v2)>>), n)
            /\ \A v0 \in Lits :
                  /\ InnerKept(Run(NestedInCall(n, v0, v1, v2)), n, v0)
                  /\ InnerKept(Run(NestedInBlock(n, v0, v1, v2)), n, v0)

\* A block declared x and assigned it 9 in its own node (the node the
\* block made, enclosed by the root), and the root still binds x to 1.
C3_Witness ==
    /\ pc = "run"
    /\ Bound("x") /\ Val("x") = Number(1)
    /\ \E e \in 2..Len(envs) :
          /\ envs[e].enclosing = Root
          /\ "x" \in DOMAIN envs[e].bindings
          /\ envs[e].bindings["x"] = Number(9)

(* ------------------------------- C4 ------------------------------------ *)

\* The nodes of a chain, the current node first, then outward.
RECURSIVE Chain(_, _)
Chain(es, e) == IF e = 0 THEN <<>> ELSE <<e>> \o Chain(es, es[e].enclosing)

\* The positions of the chain whose node binds name.
Holders(es, e, name) ==
    {i \in 1..Len(Chain(es, e)) : name \in DOMAIN es[Chain(es, e)[i]].bindings}
Innermost(es, e, name) ==
    Chain(es, e)[CHOOSE i \in Holders(es, e, name) :
                    \A j \in Holders(es, e, name) : i <= j]

UnknownName(name) == Message(<<"no such variable '", name, "'">>)

Names == {"x", "a", "b", "v", "n", "getx", "println", "zz"}

\* What set did, given the node k that get resolves name in.
SetWroteOnly(es, s, k, name, value) ==
    /\ s.res = Ok(value)
    /\ Len(s.envs) = Len(es)
    /\ \A j \in 1..Len(es) :
          /\ s.envs[j].enclosing = es[j].enclosing
          /\ DOMAIN s.envs[j].bindings = DOMAIN es[j].bindings
          /\ \A m \in DOMAIN es[j].bindings :
                s.envs[j].bindings[m] =
                    IF j = k /\ m = name THEN value ELSE es[j].bindings[m]

Resolves(es, e, name, value) ==
    IF Holders(es, e, name) = {}
    THEN /\ Environment_get(es, e, name) = UnknownName(name)
         /\ Environment_set(es, e, name, value) =
                [res |-> UnknownName(name), envs |-> es]
    ELSE /\ Environment_get(es, e, name) =
                Ok(es[Innermost(es, e, name)].bindings[name])
         /\ SetWroteOnly(es, Environment_set(es, e, name, value),
                         Innermost(es, e, name), name, value)

\* C4: on every chain of nodes and every name, get yields the binding of
\* the innermost node that holds the name and set overwrites that binding
\* and nothing else, yielding the value; when no node holds the name both
\* fail with UnknownName and nothing is modified.  So an assignment to an
\* undeclared name fails and declares nothing.
C4_NameResolution ==
    /\ \A e \in 1..Len(envs) : \A name \in Names :
          Resolves(envs, e, name, Number(7))
    /\ pc = "run" =>
          Run(<<stmt(Assign("zz", num(1)))>>) = With(UnknownName("zz"), Cur)

\* setx(5) was called: its local node binds only v, and the assignment to
\* x in its body went past that node to the root, which now binds x to 5.
C4_Witness ==
    /\ Bound("x") /\ Val("x") = Number(5)
    /\ \E e \in 2..Len(envs) :
          /\ envs[e].enclosing = Root
          /\ DOMAIN envs[e].bindings = {"v"}
          /\ envs[e].bindings["v"] = Number(5)

(* ------------------------------- C5 ------------------------------------ *)

\* gety and sety are defined where y is v1 and called from a block whose
\* own y is v2: r1 is what gety read, r2 what the block's y is after
\* sety(v3), r3 what the definition site's y is after it.
CalledFromBlock(v1, v2, v3) ==
    <<Var("y", v1), FunGety, FunSety,
      Var("r1", NoInit), Var("r2", NoInit),
      Block(<<Var("y", v2),
              stmt(Assign("r1", Call(id("gety"), <<>>))),
              stmt(Call(id("sety"), <<v3>>)),
              stmt(Assign("r2", id("y")))>>),
      Var("r3", id("y"))>>
\* The same with a calling function whose parameter is named y.
CalledFromCall(v1, v2, v3) ==
    <<Var("y", v1), FunGety, FunSety,
      Var("r2", NoInit),
      Fun("caller", <<"y">>,
          Block(<<Var("got", Call(id("gety"), <<>>)),
                  stmt(Call(id("sety"), <<v3>>)),
                  stmt(Assign("r2", id("y"))),
                  ReturnStmt(id("got"))>>)),
      Var("r1", Call(id("caller"), <<v2>>)),
      Var("r3", id("y"))>>
\* A name bound only in the caller's block.
CallerLocal(v2) ==
    <<Fun("getzq", <<>>, Block(<<ReturnStmt(id("zq"))>>)),
      Block(<<Var("zq", v2), stmt(Call(id("getzq"), <<>>))>>)>>

DefinitionSite(r, v1, v2, v3) ==
    /\ Finished(r)
    /\ RootVal(r, "r1") = Ok(LitValue(v1))
    /\ RootVal(r, "r2") = Ok(LitValue(v2))
    /\ RootVal(r, "r3") = Ok(LitValue(v3))

\* C5: the local node of a call encloses the node the function captured
\* at its definition, never the caller's: a free variable of the body is
\* read and written at the definition site even when the calling scope
\* binds the same name, and a name bound only in the caller is unbound in
\* the callee.
C5_LexicalScoping ==
    pc = "run" =>
        \A v1, v2, v3 \in Lits :
            /\ DefinitionSite(Run(CalledFromBlock(v1, v2, v3)), v1, v2, v3)
            /\ DefinitionSite(Run(CalledFromCall(v1, v2, v3)), v1, v2, v3)
            /\ Run(CallerLocal(v2)).res = UnknownName("zq")
            /\ HasGetx =>
                 Run(<<Block(<<Var("x", v2), ReturnStmt(Call(id("getx"), <<>>))>>)>>).res
                    = Return(Val("x"))

\* getx, defined at the root, was called from the block whose own x is 9
\* and printed the root's x.
C5_Witness ==
    /\ HasGetx
    /\ Len(out) > 0 /\ out[Len(out)] = [chan |-> "print", text |-> Val("x")]
    /\ \E e \in 2..Len(envs) :
          /\ envs[e].enclosing = Root
          /\ "x" \in DOMAIN envs[e].bindings
          /\ envs[e].bindings["x"] = Number(9)
          /\ Val("x") # Number(9)

(* ------------------------------- C6 ------------------------------------ *)

\* fun down(n) { var m = n; if (n > 0) { down(n - 1); } return n * 10 + m; }
\* the nested call binds n and declares m while the outer call is active.
FunDown ==
    Fun("down", <<"n">>,
        Statements(<<Var("m", id("n")),
                     If(Binary("Greater", id("n"), num(0)),
                        Statements(<<stmt(Call(id("down"),
                                               <<Binary("Minus", id("n"), num(1))>>))>>),
                        Statements(<<>>)),
                     ReturnStmt(Binary("Plus", Binary("Multiply", id("n"), num(10)),
                                       id("m")))>>))
\* fun mk(p) { fun inner() { return p; } return inner; }
\* each call of mk leaves a closure over that call's own node.
FunMk ==
    Fun("mk", <<"p">>,
        Statements(<<Fun("inner", <<>>, Statements(<<ReturnStmt(id("p"))>>)),
                     ReturnStmt(id("inner"))>>))
\* fun once(first) { if (first) { var t = 1; } return t; }
\* t is declared by the call once(true) only.
FunOnce ==
    Fun("once", <<"first">>,
        Statements(<<If(id("first"), Statements(<<Var("t", num(1))>>),
                        Statements(<<>>)),
                     ReturnStmt(id("t"))>>))

\* How many calls of down are nested inside the first.
Depths == 0..1
Recursive(k) == <<FunDown, Var("r1", Call(id("down"), <<num(k)>>))>>
Siblings(v1, v2) ==
    <<FunMk,
      Var("c1", Call(id("mk"), <<v1>>)),
      Var("c2", Call(id("mk"), <<v2>>)),
      Var("r1", Call(id("c1"), <<>>)),
      Var("r2", Call(id("c2"), <<>>))>>
Leaks(first) ==
    <<FunOnce,
      Var("r1", Call(id("once"), <<EBoolean(TRUE)>>)),
      Var("r2", Call(id("once"), <<EBoolean(first)>>))>>

\* The nodes a run added to the store.
NewNodes(r) == (Len(envs) + 1)..Len(r.st.envs)
\* No binding of the names in any node the run did not add.
NoLeak(r, names) ==
    \A e \in 1..Len(envs) :
        \A n \in names : n \in DOMAIN r.st.envs[e].bindings
                            => n \in DOMAIN envs[e].bindings

RecursiveKept(r, k) ==
    /\ Finished(r)
    /\ RootVal(r, "r1") = Ok(Number(k * 10 + k))
    /\ Cardinality(NewNodes(r)) = k + 1
    /\ \A j \in 0..k :
          \E e \in NewNodes(r) :
              r.st.envs[e].bindings = insert(insert(EmptyMap, "n", Number(j)),
                                             "m", Number(j))
    /\ NoLeak(r, {"n", "m"})
SiblingsKept(r, v1, v2) ==
    /\ Finished(r)
    /\ RootVal(r, "r1") = Ok(LitValue(v1))
    /\ RootVal(r, "r2") = Ok(LitValue(v2))
    /\ NoLeak(r, {"p", "inner"})
LeaksNot(r, first) ==
    /\ RootVal(r, "r1") = Ok(Number(1))
    /\ r.res = IF first THEN Ok(Number(1)) ELSE UnknownName("t")
    /\ NoLeak(r, {"t", "first"})

\* C6: every call of a Function gets a node of its own for its parameters
\* and declarations: a recursive call leaves the parameter and the
\* variable of the call that made it as they were, two calls of one
\* function keep their parameters apart, and what one call declared is
\* unbound in the next.
C6_CallIsolation ==
    pc = "run" =>
        /\ \A k \in Depths : RecursiveKept(Run(Recursive(k)), k)
        /\ \A v1, v2 \in Lits : SiblingsKept(Run(Siblings(v1, v2)), v1, v2)
        /\ \A first \in BOOLEAN : LeaksNot(Run(Leaks(first)), first)
        /\ Bound("rec") /\ Val("rec").t = "Function" =>
              \A k \in 0..2 : Eval(Call(id("rec"), <<num(k)>>), Cur) = Ok(Number(k))

\* rec(2) was called and printed 2: the three nested calls left three
\* nodes binding n to 2, 1 and 0.
C6_Witness ==
    /\ Len(out) > 0 /\ out[Len(out)] = [chan |-> "print", text |-> Number(2)]
    /\ \A j \in 0..2 :
          \E e \in 2..Len(envs) :
              /\ DOMAIN envs[e].bindings = {"n"}
              /\ envs[e].bindings["n"] = Number(j)

(* ------------------------------- C7 ------------------------------------ *)

\* Statements that come to a value other than Nothing when they are the
\* last of a sequence.
LastStatements ==
    {stmt(Binary("Plus", num(1), num(1)))}
    \cup {stmt(v) : v \in Lits}
    \cup {PrintStmt(v) : v \in Lits}
    \cup {If(EBoolean(TRUE), Statements(<<stmt(v)>>), Statements(<<>>)) : v \in Lits}
    \cup {Block(<<stmt(v)>>) : v \in Lits}
    \cup {Statements(<<stmt(EBoolean(TRUE)), stmt(v)>>) : v \in Lits}
\* The two shapes of a function body: the sequence the parser builds and
\* the scoped block.
Bodies(ss) == {Statements(ss), Block(ss)}

CallOf(body) == <<Fun("g", <<>>, body), Var("r1", Call(id("g"), <<>>))>>

\* The body alone comes to a value, the call of it to Nothing.
YieldsNothing(body) ==
    /\ execute_node(body, Root, Cur, 0).res.tag = "Ok"
    /\ execute_node(body, Root, Cur, 0).res.value # Nothing
    /\ RootVal(Run(CallOf(body)), "r1") = Ok(Nothing)
YieldsReturned(r, v) ==
    /\ Finished(r)
    /\ RootVal(r, "r1") = Ok(LitValue(v))

\* C7: a call yields the value of the return statement that ended the
\* body and Nothing when the body completed without one, whatever its
\* last statement came to.
C7_NoImplicitReturn ==
    pc = "run" =>
        /\ \A fin \in LastStatements :
              \A body \in Bodies(<<fin>>) : YieldsNothing(body)
        /\ \A fin \in LastStatements, v \in Lits :
              /\ \A body \in Bodies(<<fin, ReturnStmt(v)>>) :
                     YieldsReturned(Run(CallOf(body)), v)
              /\ \A body \in Bodies(<<ReturnStmt(v), fin>>) :
                     YieldsReturned(Run(CallOf(body)), v)
        /\ Bound("f") /\ Val("f").t = "Function" =>
              Eval(Call(id("f"), <<>>), Cur) = Ok(Nothing)

\* f, whose body is 1 + 1;, was called and its value printed: Nothing.
C7_Witness ==
    /\ Bound("f") /\ Val("f").t = "Function"
    /\ Val("f").body = FunF.body
    /\ Len(out) > 0 /\ out[Len(out)] = [chan |-> "print", text |-> Nothing]

(* ------------------------------- C8 ------------------------------------ *)

\* A statement whose execution shows: it writes mark and prints.
Shows == Statements(<<stmt(Assign("mark", num(1))), PrintStmt(num(99))>>)
\* fun tick() { c = c + 1; return true; }: a loop condition that counts
\* its evaluations.
FunTick ==
    Fun("tick", <<>>,
        Statements(<<stmt(Assign("c", Binary("Plus", id("c"), num(1)))),
                     ReturnStmt(EBoolean(TRUE))>>))
\* A statement n nested one level deeper, each followed by a statement
\* that shows; w counts the loops around n.
Wraps(x) ==
    {[n |-> Statements(<<x.n, Shows>>), w |-> x.w],
     [n |-> Block(<<x.n, Shows>>), w |-> x.w],
     [n |-> While(Call(id("tick"), <<>>), Statements(<<x.n, Shows>>)), w |-> x.w + 1],
     [n |-> If(EBoolean(TRUE), x.n, Shows), w |-> x.w],
     [n |-> If(EBoolean(FALSE), Shows, x.n), w |-> x.w]}
Nestings(v) ==
    LET r0 == [n |-> ReturnStmt(v), w |-> 0]
    IN  Wraps(r0) \cup UNION {Wraps(x) : x \in Wraps(r0)}

\* g returns from inside the nesting x; its caller goes on to declare r2.
Unwinds(x) ==
    <<Var("mark", num(0)), Var("c", num(0)), FunTick,
      Fun("g", <<>>, Statements(<<x.n, Shows>>)),
      Var("r1", Call(id("g"), <<>>)),
      Var("r2", id("c"))>>
Unwound(r, x, v) ==
    /\ Finished(r)
    /\ RootVal(r, "r1") = Ok(LitValue(v))
    /\ RootVal(r, "mark") = Ok(Number(0))
    /\ r.st.out = out
    /\ RootVal(r, "r2") = Ok(Number(x.w))
    /\ RootVal(r, "c") = Ok(Number(x.w))

\* inner returns from a loop; outer, which called it, runs on and returns
\* a value of its own.
Nearest(v1, v2) ==
    <<Var("mark", num(0)),
      Fun("inner", <<>>,
          Statements(<<While(EBoolean(TRUE), Statements(<<ReturnStmt(v1), Shows>>)),
                       Shows>>)),
      Fun("outer", <<>>,
          Statements(<<Var("got", Call(id("inner"), <<>>)),
                       stmt(Assign("r0", id("got"))),
                       ReturnStmt(v2), Shows>>)),
      Var("r0", NoInit),
      Var("r1", Call(id("outer"), <<>>))>>
NearestOnly(r, v1, v2) ==
    /\ Finished(r)
    /\ RootVal(r, "r0") = Ok(LitValue(v1))
    /\ RootVal(r, "r1") = Ok(LitValue(v2))
    /\ RootVal(r, "mark") = Ok(Number(0))
    /\ r.st.out = out

\* The call of w yields 7, prints nothing and leaves the root as it was.
ReturnedOnly(r) ==
    /\ r.res = Ok(Number(7))
    /\ r.st.out = out
    /\ r.st.envs[Root] = envs[Root]

\* C8: a return inside any nesting of sequences, blocks, loops and
\* conditionals of a function body ends the body there: no later
\* statement runs, no loop condition is evaluated again, the innermost
\* call yields the returned value and its caller goes on with its next
\* statement.
C8_ReturnUnwinds ==
    pc = "run" =>
        /\ \A v \in Lits :
              \A x \in Nestings(v) : Unwound(Run(Unwinds(x)), x, v)
        /\ \A v1, v2 \in Lits : NearestOnly(Run(Nearest(v1, v2)), v1, v2)
        /\ Bound("w") /\ Val("w").t = "Function" /\ Bound("x") =>
              ReturnedOnly(execute_expr(Call(id("w"), <<>>), Root, Cur, 1))

\* w returned 7 from the conditional inside its loop: 7 was printed and
\* nothing else, x is as it was declared, and the host's run goes on.
C8_Witness ==
    /\ pc = "run"
    /\ Bound("w") /\ Val("w").t = "Function"
    /\ out = <<[chan |-> "print", text |-> Number(7)]>>
    /\ Val("x") = Number(1)
    /\ nsteps = 2

(* ------------------------------- C9 ------------------------------------ *)

\* C9: the result execute_node hands back to the host is a value or an
\* evaluation failure, never the return signal.  It does not hold: a
\* return statement executed at top level, outside any call, reaches main
\* as Err(VMError::Return(v)).
C9_ReturnNeverSurfaced ==
    pc \in {"returned", "done"} => result.tag \in {"Ok", "Message"}

\* The run of "return 1;": main was handed the signal and printed it on
\* its error line.
C9_SurfacedAtTopLevel ==
    /\ pc = "done"
    /\ result = Return(Number(1))
    /\ out[Len(out)] = [chan |-> "error", text |-> Return(Number(1))]

(* ------------------------------- C10 ----------------------------------- *)

\* Expressions that fail: a type mismatch, an unbound name read and
\* written, a call of a number, an index into a number.
Failing ==
    {Binary("Plus", num(1), EBoolean(TRUE)), id("zz"), Assign("zz", num(1)),
     Call(num(1), <<>>), Get(num(1), num(0))}
\* An expression with an effect: it counts in c.
Ticks == Call(id("tick"), <<>>)
\* Statements in which the failing expression f is evaluated first; what
\* would follow it writes, allocates, prints or counts.
FailsBy(f) ==
    {stmt(f),
     stmt(Binary("Plus", f, Ticks)),
     stmt(Get(f, Ticks)),
     stmt(Call(id("println"), <<f, Ticks>>)),
     stmt(Call(id("tick"), <<f>>)),
     stmt(Call(f, <<Ticks>>)),
     stmt(EArray(<<f, Ticks>>)),
     stmt(EObject(<< <<"k", f>>, <<"j", Ticks>> >>)),
     stmt(Assign("mark", f)),
     stmt(Set(id("arr"), num(0), f)),
     stmt(Set(id("obj"), EString("k"), f)),
     stmt(MethodCall(id("arr"), EString("push"), <<f>>)),
     Var("nv", f),
     PrintStmt(f),
     ReturnStmt(f),
     While(f, Shows),
     If(f, Shows, Shows)}

\* What the failing statements find declared.
Declared ==
    <<Var("mark", num(0)), Var("c", num(0)),
      Var("arr", EArray(<<num(1)>>)),
      Var("obj", EObject(<< <<"k", num(1)>> >>)),
      FunTick,
      Fun("g", <<>>, Statements(<<>>))>>
\* The statement x.n fails at top level, and inside the body of g with g
\* called at top level; statements that show follow it everywhere.
FailsAtTop(x) == Declared \o <<x.n, Shows>>
FailsInCall(x) ==
    Declared \o <<Fun("g", <<>>, Statements(<<x.n, Shows>>)),
                  stmt(Binary("Plus", Call(id("g"), <<>>), Ticks)),
                  Shows>>
Enclosed(s) == LET x0 == [n |-> s, w |-> 0] IN {x0} \cup Wraps(x0)

\* The run r ended in the failure m and left the store p of the
\* declarations as it was, but for the loop conditions evaluated on the
\* way to the failure and the empty nodes of the blocks and calls entered.
SameBut(b, a, but) ==
    /\ DOMAIN b = DOMAIN a
    /\ \A n \in DOMAIN a \ but : b[n] = a[n]
Aborted(r, p, x, m) ==
    /\ m.tag = "Message"
    /\ r.res = m
    /\ r.st.out = out
    /\ r.st.arrays = p.st.arrays
    /\ r.st.objects = p.st.objects
    /\ SameBut(r.st.envs[Root].bindings, p.st.envs[Root].bindings, {"c", "g"})
    /\ RootVal(r, "c") = Ok(Number(x.w))
    /\ \A e \in 2..Len(r.st.envs) :
          IF e <= Len(p.st.envs) THEN r.st.envs[e] = p.st.envs[e]
          ELSE r.st.envs[e].bindings = EmptyMap
AbortedBy(p, s, m) ==
    \A x \in Enclosed(s) :
        /\ Aborted(Run(FailsAtTop(x)), p, x, m)
        /\ Aborted(Run(FailsInCall(x)), p, x, m)

\* C10: a failure ends the run where it is raised: whatever sequence,
\* block, loop, conditional or call encloses the failing expression, the
\* run's result is that failure unchanged, no statement or expression
\* after it was evaluated, nothing was written, allocated or printed, and
\* main reports that failure.
C10_FailuresAbort ==
    /\ pc = "run" =>
          /\ \A f \in Failing :
                \A s \in FailsBy(f) : AbortedBy(Run(Declared), s, Eval(f, Cur))
          /\ AbortedBy(Run(Declared), While(num(1), Shows),
                       err("while expects boolean operand"))
          /\ AbortedBy(Run(Declared), If(num(1), Shows, Shows),
                       err("if expects boolean operand"))
    /\ pc = "done" /\ result.tag = "Message" =>
          out[Len(out)] = [chan |-> "error", text |-> result]

\* getx() was printed, then 1 + true failed: the run ended there and main
\* reported the failure after the one line printed before it.
C10_Witness ==
    /\ pc = "done"
    /\ result.tag = "Message"
    /\ Len(out) = 2
    /\ out[1] = [chan |-> "print", text |-> Number(1)]
    /\ out[2] = [chan |-> "error", text |-> result]
    /\ nsteps = 3

(* ------------------------------- C11 ----------------------------------- *)

\* The failure of a binary operator whose operands are not two Numbers:
\* the message names the operator.
OpText(op) ==
    CASE op = "Greater" -> ">"
      [] op = "GreaterEqual" -> ">="
      [] op = "Less" -> "<"
      [] op = "LessEqual" -> "<="
      [] OTHER -> op
TypeMismatch(op) ==
    IF op \in {"Greater", "GreaterEqual", "Less", "LessEqual"}
    THEN Message(<<"Unexpected " \o OpText(op) \o " operands">>)
    ELSE Message(<<"Unexpected ", op, " operands">>)

\* One operand of every variant of Value, two of them Numbers.
OperandDecls ==
    <<Var("vnothing", NoInit),
      Var("vsmall", num(-3)), Var("vbig", num(7)), Var("vzero", num(0)),
      Var("vstring", EString("7")), Var("vtrue", EBoolean(TRUE)),
      Var("vfalse", EBoolean(FALSE)),
      Var("vnative", id("println")),
      Fun("vfunction", <<>>, Statements(<<ReturnStmt(num(7))>>)),
      Var("varray", EArray(<<num(7)>>)),
      Var("vrecord", EObject(<< <<"k", num(7)>> >>))>>
Operands ==
    {"vnothing", "vsmall", "vbig", "vzero", "vstring", "vtrue", "vfalse",
     "vnative", "vfunction", "varray", "vrecord"}

\* What the operator is to yield on the Numbers a and b.
Expected(op, a, b) ==
    CASE op = "Eq" -> Boolean(a = b)
      [] op = "Ne" -> Boolean(~(a = b))
      [] op = "Greater" -> Boolean(b < a)
      [] op = "GreaterEqual" -> Boolean(~(a < b))
      [] op = "Less" -> Boolean(a < b)
      [] op = "LessEqual" -> Boolean(~(b < a))
      [] op = "Plus" -> Number(a + b)
      [] op = "Minus" -> Number(a - b)
      [] op = "Multiply" -> Number(a * b)

Typed(p, op, a, b) ==
    LET l == RootVal(p, a).value
        r == RootVal(p, b).value
    IN  Eval(Binary(op, id(a), id(b)), p.st) =
            IF l.t = "Number" /\ r.t = "Number"
            THEN Ok(Expected(op, l.n, r.n))
            ELSE TypeMismatch(op)
AllTyped(p) ==
    /\ Finished(p)
    /\ \A op \in BinaryOps : \A a, b \in Operands : Typed(p, op, a, b)
    /\ {RootVal(p, a).value.t : a \in Operands} =
          {"Nothing", "Number", "String", "Boolean", "NativeFunction",
           "Function", "Array", "Object"}

\* C11: each of the nine binary operators yields a result only on two
\* Numbers, the right Boolean for a comparison and the right Number for
\* + - *, and fails with the type mismatch that names the operator on every
\* other pairing of variants, with no coercion.
C11_BinaryTyping ==
    pc = "run" =>
        /\ AllTyped(Run(OperandDecls))
        /\ Eval(Binary("Eq", Binary("Plus", num(1), num(1)), num(2)), Cur)
              = Ok(Boolean(TRUE))
        /\ Eval(Binary("Plus", num(1), EBoolean(TRUE)), Cur) = TypeMismatch("Plus")
        /\ \A op \in BinaryOps : \A a, b \in DOMAIN envs[Root].bindings :
              Val(a).t # "Number" \/ Val(b).t # "Number" =>
                  Eval(Binary(op, id(a), id(b)), Cur) = TypeMismatch(op)

\* The loop ran while x < 3 and left x at 3, then 1 + true failed.
C11_Witness ==
    /\ pc = "returned"
    /\ result = TypeMismatch("Plus")
    /\ Bound("x") /\ Val("x") = Number(3)

(* ------------------------------- C12 ----------------------------------- *)

\* The two failures of an array index.
IndexOutOfRange == err("array index of range")
InvalidIndex == err("negative array index")

\* Indices on both sides of every bound, and the ends of the i32 range.
Indices == {I32Min, -2, -1, 0, 1, 2, 3, 4, I32Max}
\* Array literals of every length up to three, with distinct elements.
ArrayLits == {<<>>, <<num(10)>>, <<num(10), num(11)>>, <<num(10), num(11), num(12)>>}

\* What Get with the index i is to yield on an array of the elements elems.
Indexed(elems, i) ==
    IF i < 0 THEN InvalidIndex
    ELSE IF i < Len(elems) THEN Ok(elems[i + 1])
    ELSE IndexOutOfRange

\* C12: Get on an array with a Number key yields element i for
\* 0 <= i < length, fails as out of range for i >= length and as an invalid
\* index for i < 0, two different failures.
C12_ArrayGet ==
    /\ IndexOutOfRange # InvalidIndex
    /\ pc = "run" =>
          /\ \A lit \in ArrayLits : \A i \in Indices :
                Eval(Get(EArray(lit), ENumber(i)), Cur)
                   = Indexed([k \in 1..Len(lit) |-> Number(lit[k].n)], i)
          /\ \A name \in DOMAIN envs[Root].bindings : \A i \in Indices :
                Val(name).t = "Array" =>
                    Eval(Get(id(name), ENumber(i)), Cur)
                       = Indexed(arrays[Val(name).ref], i)
          /\ Eval(Get(EArray(<<num(1), num(2)>>), num(5)), Cur) = IndexOutOfRange
          /\ Eval(Get(EArray(<<num(1), num(2)>>), Binary("Minus", num(0), num(1))), Cur)
                = InvalidIndex

\* a[3] was read past the end of [1,2,3]: the run ended in the failure.
C12_Witness ==
    /\ pc = "returned"
    /\ result = IndexOutOfRange
    /\ Bound("a") /\ arrays[Val("a").ref] = <<Number(1), Number(2), Number(3)>>

(* ------------------------------- C13 ----------------------------------- *)

\* The failure of Set on a base and key it does not support.
InvalidAccess == err("array only")

\* Set and Get with the same array and index: Set fails exactly when Get
\* does and with Get's failure, and yields the assigned value otherwise.
SetLikeGet(base, i, st) ==
    LET g == Eval(Get(base, ENumber(i)), st)
        s == Eval(Set(base, ENumber(i), num(9)), st)
    IN  IF g.tag = "Ok" THEN s = Ok(Number(9)) ELSE s = g

\* C13: for an array and a Number index Set fails exactly when Get fails
\* and with the same failure, invalid index below 0 and out of range from
\* the length on, neither of them the failure of an unsupported base and
\* key.  It does not hold: Set with a negative index fails as an
\* unsupported base and key.
C13_SetSameErrorsAsGet ==
    pc = "run" =>
        /\ \A lit \in ArrayLits : \A i \in Indices : SetLikeGet(EArray(lit), i, Cur)
        /\ \A lit \in ArrayLits : \A i \in Indices :
              Eval(Set(EArray(lit), ENumber(i), num(9)), Cur) # InvalidAccess
        /\ Eval(Set(num(1), num(0), num(9)), Cur) = InvalidAccess

\* The run of a[0 - 1] = 9 on the array [1,2,3]: it ended in the failure
\* of an unsupported base and key, not in that of a negative index.
C13_NegativeSetIsInvalidAccess ==
    /\ pc = "returned"
    /\ result = InvalidAccess
    /\ result # InvalidIndex
    /\ Bound("a") /\ arrays[Val("a").ref] = <<Number(1), Number(2), Number(3)>>

(* ------------------------------- C14 ----------------------------------- *)

\* The ways the push of the array q is invoked with the arguments args:
\* as a method call, through a variable, through a parameter.
PushArgs == {<<>>, <<num(20)>>, <<num(20), num(21)>>}
ByMethod(lit, args) ==
    <<Var("q", EArray(lit)),
      Var("r1", MethodCall(id("q"), EString("push"), args))>>
ByVariable(lit, args) ==
    <<Var("q", EArray(lit)),
      Var("p", Get(id("q"), EString("push"))),
      Var("r1", Call(id("p"), args))>>
ByParameter(lit, args) ==
    <<Var("q", EArray(lit)),
      Fun("ap", <<"p">>, Statements(<<ReturnStmt(Call(id("p"), args))>>)),
      Var("r1", Call(id("ap"), <<Get(id("q"), EString("push"))>>))>>

LitValues(lit) == [k \in 1..Len(lit) |-> Number(lit[k].n)]
\* The run appended the arguments in order to q and the call gave Nothing.
Pushed(r, lit, args) ==
    /\ Finished(r)
    /\ RootVal(r, "r1") = Ok(Nothing)
    /\ RootVal(r, "q").tag = "Ok"
    /\ r.st.arrays[RootVal(r, "q").value.ref] = LitValues(lit) \o LitValues(args)

\* The method call alone: the part of C14 that holds.
PushedByMethod ==
    \A lit \in ArrayLits : \A args \in PushArgs :
        Pushed(Run(ByMethod(lit, args)), lit, args)

\* C14: the push obtained from an array is bound to it: called as a
\* method, or stored in a variable or passed as an argument and called as
\* a plain call, it appends its arguments in order to that array and
\* yields Nothing.  It does not hold: the NativeFunction Get yields holds
\* no array, and a plain call hands it no base, so it appends nothing.
C14_PushBoundToArray ==
    pc = "run" =>
        /\ PushedByMethod
        /\ \A lit \in ArrayLits : \A args \in PushArgs :
              /\ Pushed(Run(ByVariable(lit, args)), lit, args)
              /\ Pushed(Run(ByParameter(lit, args)), lit, args)

\* The run of var p = a.push; p(4); on a = [1,2,3]: the call went through
\* and a is as it was.
C14_PlainCallAppendsNothing ==
    /\ pc = "run"
    /\ Bound("p") /\ Val("p") = NativeFunction("array_push")
    /\ last = Nothing
    /\ Bound("a") /\ arrays[Val("a").ref] = <<Number(1), Number(2), Number(3)>>

(* ------------------------------- C15 ----------------------------------- *)

\* g(k, m) is called with one argument where the root binds m to v0: r1
\* is what the body read as m, r2 what the root's m is after the body
\* assigned to m.
MissingRead(v0) ==
    <<Var("m", v0),
      Fun("g", <<"k", "m">>, Statements(<<ReturnStmt(id("m"))>>)),
      Var("r1", Call(id("g"), <<num(1)>>))>>
MissingWrite(v0) ==
    <<Var("m", v0),
      Fun("g", <<"k", "m">>, Statements(<<stmt(Assign("m", num(5)))>>)),
      stmt(Call(id("g"), <<num(1)>>)),
      Var("r2", id("m"))>>
\* The same with no m bound anywhere.
MissingUnbound ==
    <<Fun("g", <<"k", "zq">>, Statements(<<ReturnStmt(id("zq"))>>)),
      Var("r1", Call(id("g"), <<num(1)>>))>>
\* g(k) is called with two arguments.
Extra(v1, v2) ==
    <<Fun("g", <<"k">>, Statements(<<ReturnStmt(id("k"))>>)),
      Var("r1", Call(id("g"), <<v1, v2>>))>>

ExtraIgnored ==
    \A v1, v2 \in Lits :
        /\ Finished(Run(Extra(v1, v2)))
        /\ RootVal(Run(Extra(v1, v2)), "r1") = Ok(LitValue(v1))

\* C15: a parameter with no argument is bound to Nothing in the call's
\* own node, so the body reads Nothing and never an outer binding of that
\* name, and assigning to it leaves the outer binding alone; arguments
\* beyond the parameters are ignored.  It does not hold: a parameter with
\* no argument is not bound at all, and the name resolves outward.
C15_MissingParametersAreNothing ==
    pc = "run" =>
        /\ ExtraIgnored
        /\ \A v0 \in Lits :
              /\ RootVal(Run(MissingRead(v0)), "r1") = Ok(Nothing)
              /\ RootVal(Run(MissingWrite(v0)), "r2") = Ok(LitValue(v0))
        /\ RootVal(Run(MissingUnbound), "r1") = Ok(Nothing)

\* The run of setx() where setx is fun setx(v) { x = v; }: the body's v is
\* unbound and the run ended in that failure.
C15_MissingParameterUnbound ==
    /\ pc = "returned"
    /\ result = UnknownName("v")
    /\ HasSetx
    /\ Val("setx").parameters = <<"v">>

(* ------------------------------- C16 ----------------------------------- *)

\* What a run that nests calls beyond the depth the host's stack holds
\* comes to: the process dies.
StackOverflow == Abort(<<"stack overflow">>)

\* C16: a program whose nesting of calls exceeds the depth limit ends by
\* handing the host a resource-exhaustion failure through the result of
\* execute_node, not by crashing.  It does not hold: nothing in call,
\* execute_node or execute_expr bounds the recursion, the host's stack
\* overflows and the process dies without main getting a result.
C16_RecursionSurfacesAsFailure ==
    /\ pc = "aborted" => result # StackOverflow
    /\ pc = "run" =>
          Run(<<FunInf, stmt(Call(id("inf"), <<>>))>>).res.tag = "Message"

\* The run of fun inf() { inf(); } inf(); : it died of the stack overflow,
\* main printed nothing.
C16_Crashed ==
    /\ pc = "aborted"
    /\ result = StackOverflow
    /\ out = <<>>
    /\ Bound("inf")

(* ------------------------------- C17 ----------------------------------- *)

\* The parse has ended, one way or the other.
ParseEnded == parse_node.tag \in {"Ok", "Err"}

\* C17: the parser accepts every form of for statement of the test
\* for_statement: whenever the source starts with one of the four forms
\* (assignment or var initialiser, unbraced or braced body), its first
\* statement is not refused, and a source that is exactly one of them ends Ok.
\* The code refuses three of the four: Parser::block demands an open brace
\* for the body, and `var` reaches Parser::primary, which knows no such token.
C17_ParserAcceptsTestedFors ==
    \A f \in TestedFors :
        /\ (Len(tokens) >= Len(f) /\ SubSeq(tokens, 1, Len(f)) = f /\ parsed = <<>>)
               => parse_node.tag # "Err"
        /\ (tokens = f /\ ParseEnded) => Parser_parse(f).ok

\* The unbraced form of the test was parsed and refused for its body, while
\* the braced form with the assignment initialiser parses to the while loop.
C17_UnbracedBodyRefused ==
    /\ tokens = ForPlain
    /\ parse_node = [tag |-> "Err", msg |-> <<"expected open brace {{">>]
    /\ index = Len(ForHead) + 1
    /\ Parser_parse(ForBraced).ok
    /\ Parser_parse(ForVarBraced) = PErr(<<"Unexpected ", T("Var")>>, 3)
    /\ Parser_parse(ForVarPlain) = PErr(<<"Unexpected ", T("Var")>>, 3)

(* ------------------------------- C18 ----------------------------------- *)

\* The names the root binds to an array.
ArrayNames == {name \in DOMAIN envs[Root].bindings : Val(name).t = "Array"}

\* Every array but the one at ref is in r what it is now, and none was made.
OthersKept(r, ref) ==
    /\ Len(r.st.arrays) = Len(arrays)
    /\ \A o \in DOMAIN arrays : o # ref => r.st.arrays[o] = arrays[o]

\* r is the outcome of name[i] = 9: inside the array element i alone is
\* replaced, outside it the Set fails and the array is as it was.
SetInPlace(r, ref, i) ==
    /\ OthersKept(r, ref)
    /\ Len(r.st.arrays[ref]) = Len(arrays[ref])
    /\ IF 0 <= i /\ i < Len(arrays[ref])
       THEN /\ r.res = Ok(Number(9))
            /\ r.st.arrays[ref] = [arrays[ref] EXCEPT ![i + 1] = Number(9)]
       ELSE /\ r.res.tag = "Message"
            /\ r.st.arrays[ref] = arrays[ref]

\* r is the outcome of name.push(args): the arguments follow the elements
\* the array had.
PushAppends(r, ref, args) ==
    /\ OthersKept(r, ref)
    /\ r.res = Ok(Nothing)
    /\ Len(r.st.arrays[ref]) = Len(arrays[ref]) + Len(args)
    /\ r.st.arrays[ref] = arrays[ref] \o LitValues(args)

\* The same on a fresh array q of the elements lit.
FreshSet(lit, i) ==
    <<Var("q", EArray(lit)), Var("r1", Set(id("q"), ENumber(i), num(9)))>>
FreshSetInPlace(r, lit, i) ==
    /\ RootVal(r, "q").tag = "Ok"
    /\ Len(r.st.arrays) = Len(arrays) + 1
    /\ r.st.arrays[RootVal(r, "q").value.ref] =
          IF 0 <= i /\ i < Len(lit)
          THEN [LitValues(lit) EXCEPT ![i + 1] = Number(9)]
          ELSE LitValues(lit)
    /\ Finished(r) <=> (0 <= i /\ i < Len(lit))

\* One step of the run keeps every array there is and shortens none.
NoArrayShrinks ==
    /\ Len(arrays') >= Len(arrays)
    /\ \A ref \in DOMAIN arrays : Len(arrays'[ref]) >= Len(arrays[ref])

\* r is the outcome of the plain call of the push got from name, with the
\* array as it stands before the call: a push of k arguments makes it k
\* longer.
PushByCallAppends(r, ref, args) ==
    /\ r.res = Ok(Nothing)
    /\ Len(r.st.arrays[ref]) = Len(arrays[ref]) + Len(args)

\* Set and the method call a.push(..) on the arrays of a run: the part of
\* C18 that holds.
SetAndPushOnArrays ==
    pc = "run" =>
        /\ \A name \in ArrayNames : \A i \in Indices :
              SetInPlace(execute_expr(Set(id(name), ENumber(i), num(9)), Root, Cur, 1),
                         Val(name).ref, i)
        /\ \A name \in ArrayNames : \A args \in PushArgs :
              PushAppends(execute_expr(MethodCall(id(name), EString("push"), args),
                                       Root, Cur, 1),
                          Val(name).ref, args)
        /\ \A lit \in ArrayLits : \A i \in Indices :
              FreshSetInPlace(Run(FreshSet(lit, i)), lit, i)
C18_SetAndMethodPushHold ==
    /\ []SetAndPushOnArrays
    /\ [][NoArrayShrinks]_vars

\* The push of an array called as a plain call, (a.push)(args) and
\* var p = q.push; p(args): Expr::Call hands array_push no base.
PushByCallOnArrays ==
    pc = "run" =>
        /\ \A name \in ArrayNames : \A args \in PushArgs :
              PushByCallAppends(execute_expr(Call(Get(id(name), EString("push")), args),
                                             Root, Cur, 1),
                                Val(name).ref, args)
        /\ \A lit \in ArrayLits : \A args \in PushArgs :
              Pushed(Run(ByVariable(lit, args)), lit, args)

\* C18: the length of an array changes only by push.  A Set with a Number
\* index keeps the length: inside the array it replaces element i alone,
\* outside it (below 0, or from the length on) it fails and leaves the array
\* as it was, never extending it; a push with k arguments, called as the
\* method a.push(..) or as a plain call of the push got from the array,
\* makes the array k longer, the elements it had in place and the arguments
\* after them; and no step of a run removes an array's elements.  It does
\* not hold: a push with k > 0 arguments called as a plain call leaves the
\* length as it was.
C18_LengthChangesOnlyByPush ==
    /\ []SetAndPushOnArrays
    /\ []PushByCallOnArrays
    /\ [][NoArrayShrinks]_vars

\* The run of var p = a.push; p(4); on a = [1,2,3]: a push with one
\* argument was called and the length of a is 3, not 4.
C18_PushKeptLength ==
    /\ pc = "run"
    /\ Bound("p") /\ Val("p") = NativeFunction("array_push")
    /\ last = Nothing
    /\ execute_expr(Call(id("p"), <<num(4)>>), Root, Cur, 1).res = Ok(Nothing)
    /\ Bound("a") /\ Len(arrays[Val("a").ref]) = 3
    /\ Eval(Get(id("a"), EString("length")), Cur) = Ok(Number(3))
    /\ Len(execute_expr(Call(id("p"), <<num(4)>>), Root, Cur, 1).st.arrays[Val("a").ref]) = 3

(* ------------------------------- C19 ----------------------------------- *)

ArithOps == {"Plus", "Minus", "Multiply"}
\* Numbers at and around the ends of the signed 32-bit range, and factors
\* whose product passes them.
EdgeNumbers == {I32Min, I32Min + 1, -65536, -2, -1, 0, 1, 2, 46341, 65536,
                I32Max - 1, I32Max}

\* The death of the process on an overflowing operator of a build with
\* overflow checks.
OverflowPanic(op) == Abort(<<"attempt to ", op, " with overflow">>)

\* r is a Number of the signed 32-bit range or a failure handed to the host.
NumberOrFailure(r) ==
    \/ r.tag = "Ok" /\ r.value.t = "Number"
          /\ I32Min <= r.value.n /\ r.value.n <= I32Max
    \/ r.tag = "Message"

\* -x as Parser::unary builds it.
UnaryMinus(expr) == Parser_unary(<<T("Minus")>> \o expr, 0).v

\* C19: a + b, a - b, a * b and -b (which is 0 - b) on signed 32-bit
\* Numbers end with a Number of the signed 32-bit range or with a failure
\* returned to the host, also when the mathematical result is out of range,
\* and in no other way.  It does not hold: the operators are the plain
\* +, -, * of i32, which panic on overflow in a build with overflow checks;
\* the process dies inside execute_expr and the host gets no result.
C19_ArithmeticInNumberDomain ==
    /\ pc = "aborted" => \A op \in ArithOps : result # OverflowPanic(op)
    /\ pc = "run" =>
          /\ \A op \in ArithOps : \A a \in EdgeNumbers : \A b \in EdgeNumbers :
                NumberOrFailure(Eval(Binary(op, num(a), num(b)), Cur))
          /\ \A b \in EdgeNumbers :
                NumberOrFailure(Eval(UnaryMinus(<<TNumber(b)>>), Cur))

\* The run of print 2147483647 + 1; in a build with overflow checks: the
\* process died in the addition, nothing was printed.  -b parses to 0 - b.
C19_OverflowPanicked ==
    /\ pc = "aborted"
    /\ build = "debug"
    /\ result = OverflowPanic("Plus")
    /\ out = <<>>
    /\ UnaryMinus(<<TIdentifier("b")>>) = Binary("Minus", ENumber(0), Identifier("b"))

====
